---- MODULE Spec2Model ----
(***************************************************************************)
(* Markdown -> spreadsheet / document conversion.                          *)
(*                                                                         *)
(*  - xlsx_tools/base_xlsx_tool.py: the two passes of markdown_to_excel    *)
(*    (_scan_table_positions, then the placement loop), SpecXlsx;          *)
(*  - the formula reference resolver adjust_formula_references,            *)
(*    SpecFormula;                                                         *)
(*  - docx_tools/helpers.py: the inline formatting parser                  *)
(*    (parse_inline_formatting, handle_escapes, _restore_escapes,          *)
(*    _parse_formatting_segment), SpecInline.                              *)
(*                                                                         *)
(* Text is a sequence of one-character strings; a markdown line is a       *)
(* record of the facts the code's string tests read from it.               *)
(***************************************************************************)
EXTENDS Integers, Sequences, FiniteSets, TLC

VARIABLES
    lines,          \* markdown_content.split('\n') of the conversion
    pc,             \* position in markdown_to_excel
    scan,           \* locals of _scan_table_positions
    all_sheet_table_positions,  \* result of pass 1, as markdown_to_excel holds it
    p2,             \* locals of the second pass of markdown_to_excel
    wb,             \* the workbook: its worksheets in order
    placed,         \* log of the tables placed by pass 2
    fin,            \* arguments of one adjust_formula_references call
    fout,           \* its result
    text,           \* argument of one parse_inline_formatting call
    protected,      \* its local text after handle_escapes
    ictx,           \* inherited bold / italic of that call
    escape_map,     \* module-level _escape_map
    escape_counter, \* module-level _escape_counter
    runs,           \* runs appended to the paragraph
    ipc,            \* position in parse_inline_formatting
    esc,            \* direct calls of handle_escapes / _restore_escapes
    tbl,            \* one parse_table call
    lst,            \* one process_list_items call
    auth,           \* one ApiKeyAuthMiddleware.on_request call
    upl,            \* one upload_file call
    conc,           \* two conversions sharing the escape globals
    blk             \* one process_markdown_block call

xlsxVars == <<lines, pc, scan, all_sheet_table_positions, p2, wb, placed>>
formulaVars == <<fin, fout>>
inlineVars == <<text, protected, ictx, escape_map, escape_counter, runs, ipc, esc>>
restVars == <<tbl, lst, auth, upl, conc, blk>>
vars == <<lines, pc, scan, all_sheet_table_positions, p2, wb, placed,
          fin, fout, text, protected, ictx, escape_map, escape_counter, runs, ipc, esc,
          tbl, lst, auth, upl, conc, blk>>

(***************************************************************************)
(* Generic helpers                                                         *)
(***************************************************************************)
Range(s) == {s[n] : n \in DOMAIN s}

RECURSIVE Flatten(_)
Flatten(ss) == IF ss = <<>> THEN <<>> ELSE Head(ss) \o Flatten(Tail(ss))

\* All sequences over S of length 0..n.
SeqsUpTo(S, n) == UNION {[1..m -> S] : m \in 0..n}

\* Python's `sub in s` for sequences of characters.
Contains(s, sub) ==
    \E p \in 0..(Len(s) - Len(sub)) :
        \A q \in 1..Len(sub) : s[p + q] = sub[q]

\* str.startswith / str.endswith
StartsWith(s, pre) ==
    /\ Len(s) >= Len(pre)
    /\ \A q \in 1..Len(pre) : s[q] = pre[q]
EndsWith(s, suf) ==
    /\ Len(s) >= Len(suf)
    /\ \A q \in 1..Len(suf) : s[Len(s) - Len(suf) + q] = suf[q]

\* s[a:b] of Python for 0 <= a, with b an end offset (exclusive, 0-based).
Slice(s, a, b) == IF b <= a THEN <<>> ELSE SubSeq(s, a + 1, b)

(***************************************************************************)
(* Ordered dict (Python dict keeps insertion order): a sequence of         *)
(* [key, val] entries with pairwise distinct keys.                         *)
(***************************************************************************)
DictKeys(d) == [n \in DOMAIN d |-> d[n].key]
DictHas(d, key) == \E n \in DOMAIN d : d[n].key = key
DictGet(d, key) == d[CHOOSE n \in DOMAIN d : d[n].key = key].val
\* d[key] = val
DictSet(d, key, val) ==
    IF DictHas(d, key)
    THEN [n \in DOMAIN d |-> IF d[n].key = key THEN [key |-> key, val |-> val] ELSE d[n]]
    ELSE Append(d, [key |-> key, val |-> val])
\* d.pop(key), the dict left behind
DictDel(d, key) == SelectSeq(d, LAMBDA e : e.key # key)
\* d.setdefault(key, val), the dict afterwards
DictSetDefault(d, key, val) == IF DictHas(d, key) THEN d ELSE DictSet(d, key, val)

(***************************************************************************)
(* Lines.  k is what the pass loops test on the stripped line:             *)
(*   "blank"  not line                                                     *)
(*   "sheet"  SHEET_HEADING_PATTERN matches, group(1).strip() = name       *)
(*   "head"   line.startswith('#') and no sheet match                      *)
(*   "pipe"   line.startswith('|'); closed = line.endswith('|');           *)
(*            cells = line.split('|')[1:-1], each stripped                 *)
(*   "text"   anything else                                                *)
(* A sheet name is its sequence of space-separated words.                  *)
(***************************************************************************)
DEFAULT_SHEET_NAME == <<"Data", "Report">>

NoCells == <<>>
BlankLine == [k |-> "blank", name |-> <<>>, closed |-> FALSE, cells |-> NoCells]
TextLine == [k |-> "text", name |-> <<>>, closed |-> FALSE, cells |-> NoCells]
HeadLine == [k |-> "head", name |-> <<>>, closed |-> FALSE, cells |-> NoCells]
SheetLine(name) == [k |-> "sheet", name |-> name, closed |-> FALSE, cells |-> NoCells]
PipeLine(cells) == [k |-> "pipe", name |-> <<>>, closed |-> TRUE, cells |-> cells]
OpenPipeLine == [k |-> "pipe", name |-> <<>>, closed |-> FALSE, cells |-> NoCells]

\* A cell: its stripped text s (characters) and, for a formula cell, the
\* formula's tokens f.
TextCell(s) == [s |-> s, f |-> <<>>]
FormulaCell(f) == [s |-> <<"=">>, f |-> f]

(***************************************************************************)
(* parse_table                                                             *)
(***************************************************************************)
\* line.startswith('|') and line.endswith('|')
IsTableLine(line) == line.k = "pipe" /\ line.closed

\* '---' in line or ':-:' in line or ':--' in line or '--:' in line
\* ('|' is in none of the patterns, so a pattern lies inside one cell)
IsSeparatorLine(line) ==
    \E c \in DOMAIN line.cells :
        \/ Contains(line.cells[c].s, <<"-", "-", "-">>)
        \/ Contains(line.cells[c].s, <<":", "-", ":">>)
        \/ Contains(line.cells[c].s, <<":", "-", "-">>)
        \/ Contains(line.cells[c].s, <<"-", "-", ":">>)

\* index (1-based) of the first line at or after i that is not a table line
RECURSIVE TableEnd(_, _)
TableEnd(ls, i) ==
    IF i <= Len(ls) /\ IsTableLine(ls[i]) THEN TableEnd(ls, i + 1) ELSE i

\* a parser that takes a single pipe-bounded line for a table
parse_table_one_line(ls, start_idx) ==
    LET e == TableEnd(ls, start_idx)
        table_lines == SubSeq(ls, start_idx, e - 1)
        kept == SelectSeq(table_lines, LAMBDA l : ~IsSeparatorLine(l))
    IN  IF Len(table_lines) < 1
        THEN [none |-> TRUE, data |-> <<>>, next |-> start_idx + 1]
        ELSE [none |-> FALSE, data |-> [r \in DOMAIN kept |-> kept[r].cells], next |-> e]

\* parse_table(lines, start_idx) with 1-based indices.  none = TRUE stands
\* for the returned None (fewer than two table lines start at start_idx).
parse_table(ls, start_idx) ==
    LET e == TableEnd(ls, start_idx)
        table_lines == SubSeq(ls, start_idx, e - 1)
        kept == SelectSeq(table_lines, LAMBDA l : ~IsSeparatorLine(l))
    IN  IF Len(table_lines) < 2
        THEN [none |-> TRUE, data |-> <<>>, next |-> start_idx + 1]
        ELSE [none |-> FALSE, data |-> [r \in DOMAIN kept |-> kept[r].cells], next |-> e]

\* `if table_data:` -- neither None nor the empty list
Truthy(t) == ~t.none /\ t.data # <<>>

(***************************************************************************)
(* adjust_formula_references (xlsx_tools/helpers.py).  A formula is a      *)
(* sequence of tokens:                                                     *)
(*   lit    literal text s                                                 *)
(*   lref   T<tid>.<col>[<idx>]                                            *)
(*   xref   Sheet!T<tid>.<col>[<idx>]                                      *)
(*   xrange Sheet!T<tid>.<col>[<idx>]:T<tid>.<col2>[<idx2>]                *)
(*   xfunc  Sheet!T<tid>.<func>(<col>[<idx>]:<col2>[<idx2>])               *)
(***************************************************************************)
Lit(s) == [t |-> "lit", s |-> s, sheet |-> <<>>, tid |-> 0, col |-> "", idx |-> 0,
           col2 |-> "", idx2 |-> 0]
LRef(tid, col, idx) == [t |-> "lref", s |-> "", sheet |-> <<>>, tid |-> tid, col |-> col,
                        idx |-> idx, col2 |-> "", idx2 |-> 0]
XRef(sheet, tid, col, idx) == [t |-> "xref", s |-> "", sheet |-> sheet, tid |-> tid,
                               col |-> col, idx |-> idx, col2 |-> "", idx2 |-> 0]
XRange(sheet, tid, col, idx, col2, idx2) ==
    [t |-> "xrange", s |-> "", sheet |-> sheet, tid |-> tid, col |-> col, idx |-> idx,
     col2 |-> col2, idx2 |-> idx2]
XFunc(sheet, tid, func, col, idx, col2, idx2) ==
    [t |-> "xfunc", s |-> func, sheet |-> sheet, tid |-> tid, col |-> col, idx |-> idx,
     col2 |-> col2, idx2 |-> idx2]

\* f"T{table_counter}"
TableKey(n) == "T" \o ToString(n)

\* ' '.join(words)
RECURSIVE JoinWords(_)
JoinWords(words) ==
    IF words = <<>> THEN ""
    ELSE IF Len(words) = 1 THEN words[1]
    ELSE words[1] \o " " \o JoinWords(Tail(words))

\* the sheet name as written in the output: in single quotes if it
\* contains a space
QuoteSheet(sheet) ==
    IF Len(sheet) > 1 THEN "'" \o JoinWords(sheet) \o "'" ELSE JoinWords(sheet)

\* a resolver that forgets the header row
DataRowNoHeader(start, idx) == start + idx

\* the row of data row idx of a table starting at start: the header row
\* occupies the start row
DataRow(start, idx) == start + 1 + idx

CellAddr(col, row) == col \o ToString(row)

\* whether the position maps hold what the token looks up
TokenResolvable(tok, table_positions, all_positions) ==
    CASE tok.t = "lit" -> TRUE
      [] tok.t = "lref" -> DictHas(table_positions, TableKey(tok.tid))
      [] OTHER -> /\ DictHas(all_positions, tok.sheet)
                  /\ DictHas(DictGet(all_positions, tok.sheet), TableKey(tok.tid))

\* a resolver that sheet-qualifies both endpoints of a range
AdjustTokenQualifyBoth(tok, table_positions, all_positions) ==
    LET local == DictGet(table_positions, TableKey(tok.tid))
        remote == DictGet(DictGet(all_positions, tok.sheet), TableKey(tok.tid))
        q == QuoteSheet(tok.sheet)
    IN  CASE tok.t = "lit" -> tok.s
          [] tok.t = "lref" -> CellAddr(tok.col, DataRow(local, tok.idx))
          [] tok.t = "xref" -> q \o "!" \o CellAddr(tok.col, DataRow(remote, tok.idx))
          [] tok.t = "xrange" ->
                q \o "!" \o CellAddr(tok.col, DataRow(remote, tok.idx))
                  \o ":" \o q \o "!" \o CellAddr(tok.col2, DataRow(remote, tok.idx2))
          [] tok.t = "xfunc" ->
                tok.s \o "(" \o q \o "!" \o CellAddr(tok.col, DataRow(remote, tok.idx))
                      \o ":" \o q \o "!" \o CellAddr(tok.col2, DataRow(remote, tok.idx2))
                      \o ")"

\* a resolver that takes the second endpoint of a range for a local
\* reference when the current sheet has a table of that id
AdjustTokenLocalEnd(tok, table_positions, all_positions) ==
    LET local == DictGet(table_positions, TableKey(tok.tid))
        remote == DictGet(DictGet(all_positions, tok.sheet), TableKey(tok.tid))
        q == QuoteSheet(tok.sheet)
        endrow == IF DictHas(table_positions, TableKey(tok.tid)) THEN local ELSE remote
    IN  CASE tok.t = "lit" -> tok.s
          [] tok.t = "lref" -> CellAddr(tok.col, DataRow(local, tok.idx))
          [] tok.t = "xref" -> q \o "!" \o CellAddr(tok.col, DataRow(remote, tok.idx))
          [] tok.t = "xrange" ->
                q \o "!" \o CellAddr(tok.col, DataRow(remote, tok.idx))
                  \o ":" \o CellAddr(tok.col2, DataRow(endrow, tok.idx2))
          [] tok.t = "xfunc" ->
                tok.s \o "(" \o q \o "!" \o CellAddr(tok.col, DataRow(remote, tok.idx))
                      \o ":" \o q \o "!" \o CellAddr(tok.col2, DataRow(remote, tok.idx2))
                      \o ")"

\* the text one token is rewritten to
AdjustToken(tok, table_positions, all_positions) ==
    LET local == DictGet(table_positions, TableKey(tok.tid))
        remote == DictGet(DictGet(all_positions, tok.sheet), TableKey(tok.tid))
        q == QuoteSheet(tok.sheet)
    IN  CASE tok.t = "lit" -> tok.s
          [] tok.t = "lref" -> CellAddr(tok.col, DataRow(local, tok.idx))
          [] tok.t = "xref" -> q \o "!" \o CellAddr(tok.col, DataRow(remote, tok.idx))
          [] tok.t = "xrange" ->
                q \o "!" \o CellAddr(tok.col, DataRow(remote, tok.idx))
                  \o ":" \o CellAddr(tok.col2, DataRow(remote, tok.idx2))
          [] tok.t = "xfunc" ->
                tok.s \o "(" \o q \o "!" \o CellAddr(tok.col, DataRow(remote, tok.idx))
                      \o ":" \o q \o "!" \o CellAddr(tok.col2, DataRow(remote, tok.idx2))
                      \o ")"

FormulaResolvable(formula, table_positions, all_positions) ==
    \A n \in DOMAIN formula : TokenResolvable(formula[n], table_positions, all_positions)

\* adjust_formula_references(formula, current_table_start_row,
\*                           table_positions, all_sheet_table_positions)
\* for a formula all of whose references are in the position maps
RECURSIVE adjust_formula_references(_, _, _, _)
adjust_formula_references(formula, current_table_start_row, table_positions, all_positions) ==
    IF formula = <<>> THEN ""
    ELSE AdjustToken(Head(formula), table_positions, all_positions)
           \o adjust_formula_references(Tail(formula), current_table_start_row,
                                        table_positions, all_positions)

\* the formula as written in the markdown, kept when a reference is in no
\* position map and the resolver passes it through
TokenSource(tok) ==
    LET ref(c, i) == c \o "[" \o ToString(i) \o "]"
        tk == TableKey(tok.tid)
    IN  CASE tok.t = "lit" -> tok.s
          [] tok.t = "lref" -> tk \o "." \o ref(tok.col, tok.idx)
          [] tok.t = "xref" -> JoinWords(tok.sheet) \o "!" \o tk \o "." \o ref(tok.col, tok.idx)
          [] tok.t = "xrange" ->
                JoinWords(tok.sheet) \o "!" \o tk \o "." \o ref(tok.col, tok.idx)
                    \o ":" \o tk \o "." \o ref(tok.col2, tok.idx2)
          [] tok.t = "xfunc" ->
                JoinWords(tok.sheet) \o "!" \o tk \o "." \o tok.s \o "("
                    \o ref(tok.col, tok.idx) \o ":" \o ref(tok.col2, tok.idx2) \o ")"

RECURSIVE FormulaSource(_)
FormulaSource(formula) ==
    IF formula = <<>> THEN "" ELSE TokenSource(Head(formula)) \o FormulaSource(Tail(formula))

(***************************************************************************)
(* _scan_table_positions: pass 1                                           *)
(***************************************************************************)
\* the locals before the loop (lines 28-36); i is 1-based
ScanInit ==
    [i |-> 1,
     current_sheet |-> DEFAULT_SHEET_NAME,
     current_row |-> 1,
     table_counter |-> 1,
     first_sheet_named |-> FALSE,
     all_positions |-> <<[key |-> DEFAULT_SHEET_NAME, val |-> <<>>]>>]

\* `while i < len(lines)` is over
LoopDone(i, ls) == i > Len(ls)

\* `if not first_sheet_named and current_row == 1`
RenamesDefault(first_sheet_named, current_row) == ~first_sheet_named /\ current_row = 1

\* rows a heading takes: header + spacing
HeadingAdvance == 2
\* rows a table of n rows takes: rows + spacing
TableAdvance(n) == n + 2

\* the sheet-marker branch (lines 44-58)
ScanSheetMarker(s, line) ==
    IF RenamesDefault(s.first_sheet_named, s.current_row)
    THEN [s EXCEPT !.all_positions =
                       DictSet(DictDel(@, s.current_sheet), line.name,
                               DictGet(@, s.current_sheet)),
                   !.current_sheet = line.name,
                   !.first_sheet_named = TRUE,
                   !.i = @ + 1]
    ELSE [s EXCEPT !.current_sheet = line.name,
                   !.current_row = 1,
                   !.table_counter = 1,
                   !.all_positions = DictSetDefault(@, line.name, <<>>),
                   !.first_sheet_named = TRUE,
                   !.i = @ + 1]

\* a heading that takes one row only
ScanHeadingOneRow(s) == [s EXCEPT !.current_row = @ + 1, !.i = @ + 1]

\* the heading branch (lines 60-62)
ScanHeading(s) == [s EXCEPT !.current_row = @ + HeadingAdvance, !.i = @ + 1]

\* the table branch (lines 64-70)
ScanTable(s, ls) ==
    LET t == parse_table(ls, s.i)
    IN  IF Truthy(t)
        THEN [s EXCEPT !.all_positions =
                           DictSet(@, s.current_sheet,
                                   DictSet(DictGet(@, s.current_sheet),
                                           TableKey(s.table_counter), s.current_row)),
                       !.current_row = @ + TableAdvance(Len(t.data)),
                       !.table_counter = @ + 1,
                       !.i = t.next]
        ELSE [s EXCEPT !.i = t.next]

\* one iteration of the loop (lines 37-72)
ScanStep(s, ls) ==
    LET line == ls[s.i]
    IN  CASE line.k = "blank" -> [s EXCEPT !.i = @ + 1]
          [] line.k = "sheet" -> ScanSheetMarker(s, line)
          [] line.k = "head" -> ScanHeading(s)
          [] line.k = "pipe" -> ScanTable(s, ls)
          [] OTHER -> [s EXCEPT !.i = @ + 1]

\* _scan_table_positions(lines): the loop run to its end
RECURSIVE ScanFrom(_, _)
ScanFrom(s, ls) == IF LoopDone(s.i, ls) THEN s.all_positions ELSE ScanFrom(ScanStep(s, ls), ls)
_scan_table_positions(ls) == ScanFrom(ScanInit, ls)

(***************************************************************************)
(* markdown_to_excel                                                       *)
(***************************************************************************)
\* a worksheet title: the name given and the number openpyxl appends to
\* keep titles unique (0: none)
Title(name, dup) == [name |-> name, dup |-> dup]
TitleText(t) == JoinWords(t.name) \o (IF t.dup = 0 THEN "" ELSE ToString(t.dup))

\* Workbook(); ws = wb.active; ws.title = DEFAULT_SHEET_NAME (lines 94-101)
NewWorkbook == <<[title |-> Title(DEFAULT_SHEET_NAME, 0), cells |-> <<>>]>>

\* wb.create_sheet(title=name): a title already in the workbook gets the
\* next free number appended
CreateSheet(book, name) ==
    LET same == {n \in DOMAIN book : book[n].title.name = name}
    IN  Append(book, [title |-> Title(name, Cardinality(same)), cells |-> <<>>])

\* ws.title = name, on the only sheet of the workbook
RenameSheet(book, w, name) == [book EXCEPT ![w].title = Title(name, 0)]

\* ws.cell(row, column).value = v; f is the formula the value was written
\* for, <<>> for a text cell
WriteCell(book, w, row, col, v, f) ==
    [book EXCEPT ![w].cells = Append(@, [row |-> row, col |-> col, v |-> v, f |-> f])]

\* the locals of pass 2 before the loop (lines 103-114); ws is the index
\* of the current worksheet in the workbook
PlaceInit ==
    [i |-> 1,
     current_sheet_name |-> DEFAULT_SHEET_NAME,
     current_row |-> 1,
     table_counter |-> 1,
     table_positions |-> <<>>,
     first_sheet_named |-> FALSE,
     ws |-> 1,
     headers_count |-> 0,
     tables_count |-> 0]

\* a single-pass resolver: only the sheets the workbook holds so far
PositionsSoFar(result_of_scan) ==
    SelectSeq(result_of_scan,
              LAMBDA e : \/ e.key = p2.current_sheet_name
                         \/ \E w \in DOMAIN wb : wb[w].title.name = e.key /\ w # p2.ws)

\* the position map pass 2 hands to add_table_to_sheet (line 181)
PositionsForPlacement(result_of_scan) == result_of_scan

\* the value add_table_to_sheet writes for one cell
CellValue(cell, start_row, table_positions, all_positions) ==
    IF cell.f = <<>> THEN "text"
    ELSE IF FormulaResolvable(cell.f, table_positions, all_positions)
         THEN adjust_formula_references(cell.f, start_row, table_positions, all_positions)
         ELSE FormulaSource(cell.f)

\* the cell writes of add_table_to_sheet: row r of the grid (the header
\* row first) goes to sheet row start_row + r - 1
RECURSIVE WriteRow(_, _, _, _, _, _, _)
WriteRow(book, w, row, cells, c, table_positions, all_positions) ==
    IF c > Len(cells) THEN book
    ELSE WriteRow(WriteCell(book, w, row, c,
                            CellValue(cells[c], row, table_positions, all_positions),
                            cells[c].f),
                  w, row, cells, c + 1, table_positions, all_positions)

RECURSIVE WriteTable(_, _, _, _, _, _, _)
WriteTable(book, w, start_row, data, r, table_positions, all_positions) ==
    IF r > Len(data) THEN book
    ELSE WriteTable(WriteRow(book, w, start_row + r - 1, data[r], 1,
                             table_positions, all_positions),
                    w, start_row, data, r + 1, table_positions, all_positions)

\* every formula of the grid finds its references in the position maps
TableResolvable(data, table_positions, all_positions) ==
    \A r \in DOMAIN data : \A c \in DOMAIN data[r] :
        FormulaResolvable(data[r][c].f, table_positions, all_positions)

(***************************************************************************)
(* Documents of the spreadsheet path: up to MaxBlocks blocks.              *)
(***************************************************************************)
MaxBlocks == 3
MaxCoreBlocks == 5

SheetA == <<"Dashboard">>
SheetB == <<"Details">>
SheetNames == {SheetA, SheetB, DEFAULT_SHEET_NAME}

HdrLine == PipeLine(<<TextCell(<<"a">>), TextCell(<<"a">>)>>)
SepLine == PipeLine(<<TextCell(<<"-", "-", "-">>), TextCell(<<"-", "-", "-">>)>>)
\* | a | =Details!T1.B[0] |
RefFormula == <<Lit("="), XRef(SheetB, 1, "B", 0)>>
RefLine == PipeLine(<<TextCell(<<"a">>), FormulaCell(RefFormula)>>)

Blocks ==
    { <<BlankLine>>, <<TextLine>>, <<HeadLine>>, <<OpenPipeLine>>,
      <<SheetLine(SheetA)>>, <<SheetLine(SheetB)>>, <<SheetLine(DEFAULT_SHEET_NAME)>>,
      <<HdrLine, SepLine>>,             \* header + separator: a 1-row grid
      <<HdrLine, SepLine, RefLine>>,    \* a 2-row grid holding a formula
      <<SepLine, SepLine>> }            \* separators only: an empty grid

\* the blocks of the multi-sheet tests: markers, headings, tables
CoreBlocks ==
    { <<HeadLine>>, <<SheetLine(SheetA)>>, <<SheetLine(SheetB)>>,
      <<HdrLine, SepLine>>, <<HdrLine, SepLine, RefLine>> }

\* two tables on a sheet, then a second marker with the sheet's name, a
\* heading and a third table
RepeatedSheetExample ==
    <<SheetLine(SheetA), HdrLine, SepLine, BlankLine, HdrLine, SepLine,
      SheetLine(SheetA), HeadLine, HdrLine, SepLine>>

Documents ==
    {Flatten(bs) : bs \in SeqsUpTo(Blocks, MaxBlocks)}
        \cup {Flatten(bs) : bs \in SeqsUpTo(CoreBlocks, MaxCoreBlocks)}
        \cup {RepeatedSheetExample}

NoFormulaCall == [formula |-> <<>>, start |-> 0, local |-> <<>>, all |-> <<>>]

FormulaIdle == fin = NoFormulaCall /\ fout = ""
\* a part of the program that is not running
NotInUse == [st |-> "idle"]

RestIdleExcept(name) ==
    /\ name # "tbl" => tbl = NotInUse
    /\ name # "lst" => lst = NotInUse
    /\ name # "auth" => auth = NotInUse
    /\ name # "upl" => upl = NotInUse
    /\ name # "conc" => conc = NotInUse
    /\ name # "blk" => blk = NotInUse

RestIdle == RestIdleExcept("")

\* no direct call made: nothing restored, no call counted
EscIdle == [restored |-> <<>>, calls |-> 0]

InlineIdle ==
    /\ esc = EscIdle
    /\ text = <<>>
    /\ protected = <<>>
    /\ ictx = [bold |-> FALSE, italic |-> FALSE]
    /\ escape_map = <<>>
    /\ escape_counter = 0
    /\ runs = <<>>
    /\ ipc = "idle"
XlsxIdle ==
    /\ lines = <<>>
    /\ pc = "idle"
    /\ scan = ScanInit
    /\ all_sheet_table_positions = <<>>
    /\ p2 = PlaceInit
    /\ wb = <<>>
    /\ placed = <<>>

\* markdown_to_excel(markdown_content) is entered (line 87)
XlsxInit ==
    /\ lines \in Documents
    /\ pc = "scan"
    /\ scan = ScanInit
    /\ all_sheet_table_positions = <<>>
    /\ p2 = PlaceInit
    /\ wb = <<>>
    /\ placed = <<>>
    /\ FormulaIdle
    /\ InlineIdle
    /\ RestIdle

(***************************************************************************)
(* Pass 1, one action per branch of the loop                               *)
(***************************************************************************)
ScanAt(kind) ==
    /\ pc = "scan"
    /\ ~LoopDone(scan.i, lines)
    /\ lines[scan.i].k = kind

ScanBlankLine ==
    /\ ScanAt("blank")
    /\ scan' = ScanStep(scan, lines)
    /\ UNCHANGED <<formulaVars, inlineVars, restVars, lines, pc, all_sheet_table_positions, p2, wb, placed>>

ScanSheetLine ==
    /\ ScanAt("sheet")
    /\ scan' = ScanStep(scan, lines)
    /\ UNCHANGED <<formulaVars, inlineVars, restVars, lines, pc, all_sheet_table_positions, p2, wb, placed>>

ScanHeadingLine ==
    /\ ScanAt("head")
    /\ scan' = ScanStep(scan, lines)
    /\ UNCHANGED <<formulaVars, inlineVars, restVars, lines, pc, all_sheet_table_positions, p2, wb, placed>>

ScanTableLine ==
    /\ ScanAt("pipe")
    /\ scan' = ScanStep(scan, lines)
    /\ UNCHANGED <<formulaVars, inlineVars, restVars, lines, pc, all_sheet_table_positions, p2, wb, placed>>

ScanOtherLine ==
    /\ ScanAt("text")
    /\ scan' = ScanStep(scan, lines)
    /\ UNCHANGED <<formulaVars, inlineVars, restVars, lines, pc, all_sheet_table_positions, p2, wb, placed>>

\* a scan that returns what it has after its first line
ScanReturnEarly ==
    /\ pc = "scan"
    /\ scan.i > 1 \/ LoopDone(scan.i, lines)
    /\ all_sheet_table_positions' = scan.all_positions
    /\ pc' = "book"
    /\ UNCHANGED <<formulaVars, inlineVars, restVars, lines, scan, p2, wb, placed>>

\* return all_positions (line 74), assigned at line 90
ScanReturn ==
    /\ pc = "scan"
    /\ LoopDone(scan.i, lines)
    /\ all_sheet_table_positions' = scan.all_positions
    /\ pc' = "book"
    /\ UNCHANGED <<formulaVars, inlineVars, restVars, lines, scan, p2, wb, placed>>

(***************************************************************************)
(* Pass 2                                                                  *)
(***************************************************************************)
\* lines 94-114
CreateWorkbook ==
    /\ pc = "book"
    /\ wb' = NewWorkbook
    /\ p2' = PlaceInit
    /\ pc' = "place"
    /\ UNCHANGED <<formulaVars, inlineVars, restVars, lines, scan, all_sheet_table_positions, placed>>

PlaceAt(kind) ==
    /\ pc = "place"
    /\ ~LoopDone(p2.i, lines)
    /\ lines[p2.i].k = kind

\* lines 121-123
PlaceBlankLine ==
    /\ PlaceAt("blank")
    /\ p2' = [p2 EXCEPT !.i = @ + 1]
    /\ UNCHANGED <<formulaVars, inlineVars, restVars, lines, pc, scan, all_sheet_table_positions, wb, placed>>

\* lines 126-144
PlaceSheetLine ==
    /\ PlaceAt("sheet")
    /\ LET sheet_name == lines[p2.i].name
       IN  IF RenamesDefault(p2.first_sheet_named, p2.current_row)
           THEN /\ wb' = RenameSheet(wb, p2.ws, sheet_name)
                /\ p2' = [p2 EXCEPT !.current_sheet_name = sheet_name,
                                    !.first_sheet_named = TRUE,
                                    !.i = @ + 1]
           ELSE /\ wb' = CreateSheet(wb, sheet_name)
                /\ p2' = [p2 EXCEPT !.ws = Len(wb) + 1,
                                    !.current_row = 1,
                                    !.table_counter = 1,
                                    !.table_positions = <<>>,
                                    !.current_sheet_name = sheet_name,
                                    !.first_sheet_named = TRUE,
                                    !.i = @ + 1]
    /\ UNCHANGED <<formulaVars, inlineVars, restVars, lines, pc, scan, all_sheet_table_positions, placed>>

\* lines 147-167
PlaceHeadingLine ==
    /\ PlaceAt("head")
    /\ wb' = WriteCell(wb, p2.ws, p2.current_row, 1, "header", <<>>)
    /\ p2' = [p2 EXCEPT !.headers_count = @ + 1,
                        !.current_row = @ + HeadingAdvance,
                        !.i = @ + 1]
    /\ UNCHANGED <<formulaVars, inlineVars, restVars, lines, pc, scan, all_sheet_table_positions, placed>>

\* lines 170-187, add_table_to_sheet returning
PlaceTableLine ==
    /\ PlaceAt("pipe")
    /\ LET t == parse_table(lines, p2.i)
           table_key == TableKey(p2.table_counter)
           table_positions == DictSet(p2.table_positions, table_key, p2.current_row)
           all_positions == PositionsForPlacement(all_sheet_table_positions)
       IN  IF Truthy(t)
           THEN /\ wb' = WriteTable(wb, p2.ws, p2.current_row, t.data, 1,
                                    table_positions, all_positions)
                /\ placed' = Append(placed, [sheet |-> p2.current_sheet_name,
                                             ws |-> p2.ws,
                                             key |-> table_key,
                                             row |-> p2.current_row,
                                             rows |-> Len(t.data)])
                /\ p2' = [p2 EXCEPT !.table_positions = table_positions,
                                    !.current_row = @ + TableAdvance(Len(t.data)),
                                    !.tables_count = @ + 1,
                                    !.table_counter = @ + 1,
                                    !.i = t.next]
           ELSE /\ p2' = [p2 EXCEPT !.i = t.next]
                /\ UNCHANGED <<wb, placed>>
    /\ UNCHANGED <<formulaVars, inlineVars, restVars, lines, pc, scan, all_sheet_table_positions>>

\* lines 179-182 and 193-195: add_table_to_sheet raises on a reference that
\* is in no position map, and markdown_to_excel re-raises RuntimeError
PlaceTableRaises ==
    /\ PlaceAt("pipe")
    /\ LET t == parse_table(lines, p2.i)
           table_positions == DictSet(p2.table_positions, TableKey(p2.table_counter),
                                      p2.current_row)
       IN  /\ Truthy(t)
           /\ ~TableResolvable(t.data, table_positions,
                               PositionsForPlacement(all_sheet_table_positions))
           /\ p2' = [p2 EXCEPT !.table_positions = table_positions]
    /\ pc' = "failed"
    /\ UNCHANGED <<formulaVars, inlineVars, restVars, lines, scan, all_sheet_table_positions, wb, placed>>

\* lines 190-191
PlaceOtherLine ==
    /\ PlaceAt("text")
    /\ p2' = [p2 EXCEPT !.i = @ + 1]
    /\ UNCHANGED <<formulaVars, inlineVars, restVars, lines, pc, scan, all_sheet_table_positions, wb, placed>>

\* the loop of pass 2 ends (line 117)
PlaceLoopEnd ==
    /\ pc = "place"
    /\ LoopDone(p2.i, lines)
    /\ pc' = "save"
    /\ UNCHANGED <<formulaVars, inlineVars, restVars, lines, scan, all_sheet_table_positions, p2, wb, placed>>

\* lines 198-210: wb.save and upload_file return, or one of them raises
SaveWorkbook ==
    /\ pc = "save"
    /\ pc' \in {"done", "failed"}
    /\ UNCHANGED <<formulaVars, inlineVars, restVars, lines, scan, all_sheet_table_positions, p2, wb, placed>>

XlsxNext ==
    \/ ScanBlankLine
    \/ ScanSheetLine
    \/ ScanHeadingLine
    \/ ScanTableLine
    \/ ScanOtherLine
    \/ ScanReturn
    \/ CreateWorkbook
    \/ PlaceBlankLine
    \/ PlaceSheetLine
    \/ PlaceHeadingLine
    \/ PlaceTableLine
    \/ PlaceTableRaises
    \/ PlaceOtherLine
    \/ PlaceLoopEnd
    \/ SaveWorkbook

SpecXlsx == XlsxInit /\ [][XlsxNext]_vars

(***************************************************************************)
(* Properties of the spreadsheet path (SpecXlsx)                           *)
(***************************************************************************)
\* the names of the `## Sheet:` markers, in source order
MarkerNames(ls) ==
    LET ms == SelectSeq(ls, LAMBDA l : l.k = "sheet")
    IN  [n \in DOMAIN ms |-> ms[n].name]

\* the first non-blank line is a marker
StartsWithMarker(ls) ==
    \E n \in DOMAIN ls :
        /\ ls[n].k = "sheet"
        /\ \A m \in 1..(n - 1) : ls[m].k = "blank"

\* a document of two sheets with different names, each opened by a marker
TwoSheetDoc(ls) ==
    /\ Len(ls) >= 1
    /\ ls[1].k = "sheet"
    /\ Len(MarkerNames(ls)) = 2
    /\ MarkerNames(ls)[1] # MarkerNames(ls)[2]

\* the same two sheets in the other source order
SwapSections(ls) ==
    LET m == CHOOSE n \in 2..Len(ls) : ls[n].k = "sheet"
    IN  SubSeq(ls, m, Len(ls)) \o SubSeq(ls, 1, m - 1)

CellsWritten == UNION {Range(wb[w].cells) : w \in DOMAIN wb}

\* C1: in a document of two sheets, every cross-sheet formula whose target
\* table exists is rewritten to the address it gets when the two sheets
\* appear in the other source order (forward and backward references
\* resolve alike).
C1_ForwardReferenceOrderIndependent ==
    (wb # <<>> /\ TwoSheetDoc(lines)) =>
        LET other == _scan_table_positions(SwapSections(lines))
        IN  \A cell \in CellsWritten :
                (cell.f # <<>> /\ FormulaResolvable(cell.f, <<>>, other))
                    => cell.v = adjust_formula_references(cell.f, 0, <<>>, other)

\* Dashboard holds =Details!T1.B[0] before Details appears in the source
\* (test_forward_reference_sheet1_refs_sheet2), and it came out as
\* =Details!B2.
C1_Witness ==
    /\ pc = "done"
    /\ lines = <<SheetLine(SheetA), HdrLine, SepLine, RefLine,
                 SheetLine(SheetB), HdrLine, SepLine>>
    /\ \E c \in DOMAIN wb[1].cells :
           /\ wb[1].cells[c].f = RefFormula
           /\ wb[1].cells[c].v = "=Details!B2"

\* C2: every table pass 2 placed is recorded by the scan under the same
\* sheet name and table id at the row where it was placed.
C2_ScanPredictsPlacement ==
    \A n \in DOMAIN placed :
        /\ DictHas(all_sheet_table_positions, placed[n].sheet)
        /\ DictHas(DictGet(all_sheet_table_positions, placed[n].sheet), placed[n].key)
        /\ DictGet(DictGet(all_sheet_table_positions, placed[n].sheet), placed[n].key)
               = placed[n].row

InPass2 == pc \in {"place", "save", "done", "failed"}

\* C3: while the scan runs no workbook exists and nothing is placed; once
\* the workbook exists the scan has consumed every line, the position map is
\* the scan of the whole document, and neither changes again.
C3_ScanCompletesBeforePlacement ==
    /\ [](pc = "scan" => wb = <<>> /\ placed = <<>>)
    /\ [](wb # <<>> \/ InPass2 =>
            /\ LoopDone(scan.i, lines)
            /\ all_sheet_table_positions = _scan_table_positions(lines))
    /\ [][InPass2 => /\ scan' = scan
                     /\ all_sheet_table_positions' = all_sheet_table_positions]_vars

\* pass 2 has placed a table that follows other content
C3_Witness ==
    /\ pc = "place"
    /\ Len(placed) >= 1
    /\ Len(lines) >= 5
    /\ Len(wb) = 2

\* C7: the scan's cursor starts at 1; a heading advances it by 2; a table
\* with a non-empty grid is recorded at the cursor under T<k> and advances
\* it by row count + 2, k going up by one; a marker that opens a new sheet
\* puts cursor and k back to 1; every other line leaves cursor, k and the
\* map as they are.
C7_ScanCursor ==
    /\ [](scan.i = 1 => scan.current_row = 1 /\ scan.table_counter = 1)
    /\ [][(pc = "scan" /\ ~LoopDone(scan.i, lines)) =>
            LET line == lines[scan.i]
                t == parse_table(lines, scan.i)
            IN  CASE line.k = "head" ->
                        /\ scan'.current_row = scan.current_row + 2
                        /\ scan'.table_counter = scan.table_counter
                        /\ scan'.all_positions = scan.all_positions
                  [] line.k = "pipe" /\ ~t.none /\ Len(t.data) > 0 ->
                        /\ DictGet(DictGet(scan'.all_positions, scan.current_sheet),
                                   "T" \o ToString(scan.table_counter)) = scan.current_row
                        /\ scan'.current_row = scan.current_row + Len(t.data) + 2
                        /\ scan'.table_counter = scan.table_counter + 1
                        /\ scan'.current_sheet = scan.current_sheet
                  [] line.k = "sheet" ->
                        /\ scan'.current_row = 1
                        /\ scan'.table_counter = 1
                        /\ scan'.current_sheet = line.name
                  [] OTHER ->
                        /\ scan'.current_row = scan.current_row
                        /\ scan'.table_counter = scan.table_counter
                        /\ scan'.all_positions = scan.all_positions]_vars

\* a heading, then a 1-row table recorded as T1 at row 3, cursor at 6
C7_Witness ==
    /\ pc = "scan"
    /\ scan.table_counter = 2
    /\ scan.current_row = 6
    /\ DictGet(DictGet(scan.all_positions, scan.current_sheet), "T1") = 3

\* C8: a document whose first content is a marker and that has n markers
\* ends with exactly n sheets named by the markers in source order, in the
\* scan map and in the workbook; a document without markers ends with the
\* single sheet "Data Report".
C8_SheetsNamedByMarkers ==
    pc \in {"save", "done"} =>
        LET names == MarkerNames(lines)
            titles == [w \in DOMAIN wb |-> TitleText(wb[w].title)]
        IN  IF names = <<>>
            THEN /\ titles = <<"Data Report">>
                 /\ DictKeys(all_sheet_table_positions) = <<DEFAULT_SHEET_NAME>>
            ELSE StartsWithMarker(lines) =>
                    /\ DictKeys(all_sheet_table_positions) = names
                    /\ titles = [n \in DOMAIN names |-> JoinWords(names[n])]

(***************************************************************************)
(* adjust_formula_references called on its own (SpecFormula)               *)
(***************************************************************************)
MaxStartRow == 3
MaxIdx == 4

FormulaSheets == {<<"Revenue">>, <<"Data">>, <<"Sales", "Data">>, <<"My", "Sheet">>}
FormulaCols == {"A", "B"}
\* T1 is in the position maps, T2 is not
FormulaTableIds == {1, 2}

\* =Sheet!T1.B[0]
SingleRef(sheet, tid, col, idx) == <<Lit("="), XRef(sheet, tid, col, idx)>>
\* =SUM(Sheet!T1.B[0]:T1.B[2])
SumRange(sheet, tid, col, idx, col2, idx2) ==
    <<Lit("=SUM("), XRange(sheet, tid, col, idx, col2, idx2), Lit(")")>>
\* =Sheet!T1.SUM(B[0]:D[0])
SumCall(sheet, tid, col, idx, col2, idx2) ==
    <<Lit("="), XFunc(sheet, tid, "SUM", col, idx, col2, idx2)>>
\* =Sheet!T1.B[0]-T1.B[0]
MixedRef(sheet, tid, col, idx) ==
    <<Lit("="), XRef(sheet, tid, col, idx), Lit("-"), LRef(tid, col, idx)>>

\* {"T1": row}
OneTable(row) == <<[key |-> "T1", val |-> row]>>
\* {sheet: {"T1": row}}
OneSheet(sheet, row) == <<[key |-> sheet, val |-> OneTable(row)]>>

FormulaCall(formula, start, local, all) ==
    [formula |-> formula, start |-> start, local |-> local, all |-> all]

FormulaCalls ==
    LET Idx == 0..MaxIdx
        Rows == 1..MaxStartRow
        Locals == {<<>>} \cup {OneTable(r + 2) : r \in Rows}
    IN  {FormulaCall(SingleRef(sh, tid, col, i), 10, local, OneSheet(sh, r)) :
            sh \in FormulaSheets, tid \in FormulaTableIds, col \in FormulaCols,
            i \in Idx, r \in Rows, local \in Locals}
        \cup
        {FormulaCall(SumRange(sh, tid, "B", i, col, j), 10, local, OneSheet(sh, r)) :
            sh \in FormulaSheets, tid \in FormulaTableIds, col \in FormulaCols,
            i \in Idx, j \in Idx, r \in Rows, local \in Locals}
        \cup
        {FormulaCall(SumCall(sh, tid, "B", i, col, j), 10, <<>>, OneSheet(sh, r)) :
            sh \in FormulaSheets, tid \in FormulaTableIds, col \in FormulaCols,
            i \in Idx, j \in Idx, r \in Rows}
        \cup
        {FormulaCall(MixedRef(sh, tid, col, i), 5, local, OneSheet(sh, r)) :
            sh \in FormulaSheets, tid \in FormulaTableIds, col \in FormulaCols,
            i \in Idx, r \in Rows, local \in Locals}

FormulaInit ==
    /\ fin \in FormulaCalls
    /\ fout = ""
    /\ XlsxIdle
    /\ InlineIdle
    /\ RestIdle

\* the call returns the rewritten formula
AdjustFormula ==
    /\ fout = ""
    /\ FormulaResolvable(fin.formula, fin.local, fin.all)
    /\ fout' = adjust_formula_references(fin.formula, fin.start, fin.local, fin.all)
    /\ UNCHANGED <<fin, xlsxVars, inlineVars, restVars>>

\* a reference is in no position map: the formula comes back as written, or
\* the lookup raises
AdjustFormulaMissing ==
    /\ fout = ""
    /\ ~FormulaResolvable(fin.formula, fin.local, fin.all)
    /\ fout' \in {FormulaSource(fin.formula), "KeyError"}
    /\ UNCHANGED <<fin, xlsxVars, inlineVars, restVars>>

FormulaNext ==
    \/ AdjustFormula
    \/ AdjustFormulaMissing

SpecFormula == FormulaInit /\ [][FormulaNext]_vars

\* the call has returned a rewritten formula
Adjusted == fout # "" /\ FormulaResolvable(fin.formula, fin.local, fin.all)

\* C4: Sheet!T<id>.<Col>[<idx>] becomes Sheet!<Col><row> with
\* row = all_sheet_positions[Sheet][T<id>] + 1 + idx, the sheet name in
\* single quotes exactly when it contains a space.
C4_CrossSheetSingleCell ==
    /\ \A sh \in FormulaSheets, col \in FormulaCols, i \in 0..MaxIdx :
         (Adjusted /\ fin.formula = SingleRef(sh, 1, col, i)) =>
            LET row == DictGet(DictGet(fin.all, sh), "T1") + 1 + i
                name == JoinWords(sh)
                quoted == IF Len(sh) > 1 THEN "'" \o name \o "'" ELSE name
            IN  fout = "=" \o quoted \o "!" \o col \o ToString(row)
    /\ (Adjusted /\ fin.formula = SingleRef(<<"Revenue">>, 1, "B", 0)
                 /\ fin.all = OneSheet(<<"Revenue">>, 1)) => fout = "=Revenue!B2"
    /\ (Adjusted /\ fin.formula = SingleRef(<<"Revenue">>, 1, "B", 1)
                 /\ fin.all = OneSheet(<<"Revenue">>, 1)) => fout = "=Revenue!B3"
    /\ (Adjusted /\ fin.formula = SingleRef(<<"Sales", "Data">>, 1, "B", 0)
                 /\ fin.all = OneSheet(<<"Sales", "Data">>, 1)) => fout = "='Sales Data'!B2"
    /\ (Adjusted /\ fin.formula = SingleRef(<<"My", "Sheet">>, 1, "A", 2)
                 /\ fin.all = OneSheet(<<"My", "Sheet">>, 1)) => fout = "='My Sheet'!A4"

\* =Sales Data!T1.B[0] with T1 at row 1 came out quoted
C4_Witness ==
    /\ fin.formula = SingleRef(<<"Sales", "Data">>, 1, "B", 0)
    /\ fin.all = OneSheet(<<"Sales", "Data">>, 1)
    /\ fout = "='Sales Data'!B2"

\* =SUM(Data!T1.B[0]:T1.B[2]) with Data.T1 at row 1
IsDataRangeCall ==
    /\ Adjusted
    /\ fin.formula = SumRange(<<"Data">>, 1, "B", 0, "B", 2)
    /\ fin.all = OneSheet(<<"Data">>, 1)

\* C5 as stated: =SUM(Data!T1.B[0]:T1.B[2]) with Data.T1 at row 1 resolves
\* to =SUM(Data!B2:Data!B4), both endpoints sheet-qualified.
C5_RangeBothEndpointsQualified ==
    IsDataRangeCall => fout = "=SUM(Data!B2:Data!B4)"

\* C5 as amended: =SUM(Data!T1.B[0]:T1.B[2]) with Data.T1 at row 1 resolves
\* to =SUM(Data!B2:B4): the range keeps one sheet qualifier, on its first
\* endpoint.
C5_RangeFirstEndpointQualified ==
    IsDataRangeCall => fout = "=SUM(Data!B2:B4)"

\* the range was rewritten on a sheet that has a T1 of its own
C5_Witness ==
    /\ IsDataRangeCall
    /\ fin.local = OneTable(3)
    /\ fout = "=SUM(Data!B2:B4)"

\* C6: Sheet!T<id>.<C1>[i]:T<id>.<C2>[j] is rewritten with the first
\* endpoint sheet-qualified only and both rows taken from the referenced
\* sheet's table position, whatever the local table positions are;
\* ("=SUM(Data!T1.B[0]:T1.B[4])", 10, {}, {"Data": {"T1": 1}}) gives
\* "=SUM(Data!B2:B6)".
C6_CrossSheetRange ==
    /\ \A sh \in FormulaSheets, col \in FormulaCols, i \in 0..MaxIdx, j \in 0..MaxIdx :
         (Adjusted /\ fin.formula = SumRange(sh, 1, "B", i, col, j)) =>
            LET start == DictGet(DictGet(fin.all, sh), "T1")
                name == JoinWords(sh)
                quoted == IF Len(sh) > 1 THEN "'" \o name \o "'" ELSE name
            IN  fout = "=SUM(" \o quoted \o "!" \o "B" \o ToString(start + 1 + i)
                               \o ":" \o col \o ToString(start + 1 + j) \o ")"
    /\ (Adjusted /\ fin = FormulaCall(SumRange(<<"Data">>, 1, "B", 0, "B", 4), 10, <<>>,
                                      OneSheet(<<"Data">>, 1)))
            => fout = "=SUM(Data!B2:B6)"

\* the range of test_cross_sheet_range, on a sheet whose own T1 is elsewhere
C6_Witness ==
    /\ fin.formula = SumRange(<<"Data">>, 1, "B", 0, "B", 4)
    /\ fin.all = OneSheet(<<"Data">>, 1)
    /\ fin.local = OneTable(5)
    /\ fout = "=SUM(Data!B2:B6)"

(***************************************************************************)
(* Inline formatting (docx_tools/helpers.py).  A character is a            *)
(* one-character string, but for the private-use character                 *)
(* chr(0xE000 + n), the string Placeholder(n), and the grave accent.       *)
(***************************************************************************)
Placeholder(n) == "E00" \o ToString(n)

\* the grave accent that delimits code spans
Backtick == "BQ"

Min(S) == CHOOSE x \in S : \A y \in S : x <= y

\* t[p:].startswith(pat), p counted from 1
At(t, p, pat) ==
    /\ p >= 1
    /\ p + Len(pat) - 1 <= Len(t)
    /\ \A q \in 1..Len(pat) : t[p + q - 1] = pat[q]

\* t.find(pat, from), counted from 1; 0 when there is none
FirstAt(t, from, pat) ==
    LET ps == {p \in from..Len(t) : At(t, p, pat)}
    IN  IF ps = {} THEN 0 ELSE Min(ps)

\* `.` of a regular expression does not match a newline
NoNewline(t, a, b) == \A p \in a..b : t[p] # "\n"

\* part[a:-b]
Strip(part, a, b) == Slice(part, a, Len(part) - b)

\* handle_escapes: re.sub(r'\\(.)', _replace, text), left to right; every
\* match takes the next placeholder and records the escaped character
RECURSIVE HandleFrom(_, _, _, _, _)
HandleFrom(t, i, map, counter, out) ==
    IF i > Len(t) THEN [text |-> out, map |-> map, counter |-> counter]
    ELSE IF t[i] = "\\" /\ i < Len(t) /\ t[i + 1] # "\n"
    THEN HandleFrom(t, i + 2, DictSet(map, Placeholder(counter), t[i + 1]),
                    counter + 1, Append(out, Placeholder(counter)))
    ELSE HandleFrom(t, i + 1, map, counter, Append(out, t[i]))

\* escapes that only lose their backslash
handle_escapes_unprotected(t, map, counter) ==
    [text |-> SelectSeq(t, LAMBDA c : c # "\\"), map |-> map, counter |-> counter]

handle_escapes(t, map, counter) == HandleFrom(t, 1, map, counter, <<>>)

\* text.replace(placeholder, char)
Replace(t, placeholder, char) ==
    [n \in DOMAIN t |-> IF t[n] = placeholder THEN char ELSE t[n]]

\* the loop of _restore_escapes over _escape_map.items(), from entry k on
RECURSIVE RestoreFrom(_, _, _)
RestoreFrom(t, map, k) ==
    IF k > Len(map) THEN t
    ELSE RestoreFrom(Replace(t, map[k].key, map[k].val), map, k + 1)

_restore_escapes(t, map) == IF map = <<>> THEN t ELSE RestoreFrom(t, map, 1)

\* The alternatives of _INLINE_FORMAT_RE tried at position s: the position
\* of the last character of the match, 0 when the alternative fails.
\* \*{3}(?:[^*]|\*(?!\*{2}))+\*{3}: no *** may start inside the body, so the
\* closing *** is the first one after the opening, with a body before it
BoldItalicEnd(t, s) ==
    LET d == <<"*", "*", "*">>
        e == FirstAt(t, s + 3, d)
    IN  IF At(t, s, d) /\ e >= s + 4 THEN e + 2 ELSE 0

\* \*\*(?:[^*]|\*(?!\*))+\*\*
BoldEnd(t, s) ==
    LET d == <<"*", "*">>
        e == FirstAt(t, s + 2, d)
    IN  IF At(t, s, d) /\ e >= s + 3 THEN e + 1 ELSE 0

\* ~~.+?~~ : the nearest ~~ after at least one character, no newline between
StrikeEnd(t, s) ==
    LET d == <<"~", "~">>
        e == FirstAt(t, s + 3, d)
    IN  IF At(t, s, d) /\ e > 0 /\ NoNewline(t, s + 2, e - 1) THEN e + 1 ELSE 0

\* __(?!_).+?__
UnderlineEnd(t, s) ==
    LET d == <<"_", "_">>
        e == FirstAt(t, s + 3, d)
    IN  IF At(t, s, d) /\ ~At(t, s + 2, <<"_">>) /\ e > 0 /\ NoNewline(t, s + 2, e - 1)
        THEN e + 1 ELSE 0

\* \*(?:[^*]|\*\*[^*]+\*\*)+\* : the body is read unit by unit from p, a
\* unit being one character other than * or **x** with x free of *; the
\* match ends at the last unit boundary that holds a *
RECURSIVE ItalicScan(_, _, _, _)
ItalicScan(t, p, best, any) ==
    LET here == IF any /\ At(t, p, <<"*">>) THEN p ELSE best
        q == FirstAt(t, p + 2, <<"*">>)
    IN  IF p > Len(t) THEN here
        ELSE IF t[p] # "*" THEN ItalicScan(t, p + 1, here, TRUE)
        ELSE IF At(t, p, <<"*", "*">>) /\ q >= p + 3 /\ At(t, q, <<"*", "*">>)
        THEN ItalicScan(t, q + 2, here, TRUE)
        ELSE here

ItalicEnd(t, s) == IF At(t, s, <<"*">>) THEN ItalicScan(t, s + 1, 0, FALSE) ELSE 0

\* the code alternative: a backtick, one or more other characters, a backtick
CodeEnd(t, s) ==
    LET e == FirstAt(t, s + 1, <<Backtick>>)
    IN  IF At(t, s, <<Backtick>>) /\ e >= s + 2 THEN e ELSE 0

\* the link alternative: [ text free of ] ]( url free of ) )
LinkEnd(t, s) ==
    LET j == FirstAt(t, s + 1, <<"]">>)
        k == FirstAt(t, j + 2, <<")">>)
    IN  IF At(t, s, <<"[">>) /\ j > 0 /\ At(t, j + 1, <<"(">>) /\ k > 0 THEN k ELSE 0

\* the alternation is ordered: the first alternative that matches at s wins
MatchEnd(t, s) ==
    CASE BoldItalicEnd(t, s) > 0 -> BoldItalicEnd(t, s)
      [] BoldEnd(t, s) > 0 -> BoldEnd(t, s)
      [] StrikeEnd(t, s) > 0 -> StrikeEnd(t, s)
      [] UnderlineEnd(t, s) > 0 -> UnderlineEnd(t, s)
      [] ItalicEnd(t, s) > 0 -> ItalicEnd(t, s)
      [] CodeEnd(t, s) > 0 -> CodeEnd(t, s)
      [] LinkEnd(t, s) > 0 -> LinkEnd(t, s)
      [] OTHER -> 0


\* _INLINE_FORMAT_RE.split(text) from position s on, the part in progress
\* starting at from: the text between matches and the matches, in turn
RECURSIVE SplitFrom(_, _, _)
SplitFrom(t, s, from) ==
    IF s > Len(t) THEN <<SubSeq(t, from, Len(t))>>
    ELSE IF MatchEnd(t, s) > 0
    THEN <<SubSeq(t, from, s - 1), SubSeq(t, s, MatchEnd(t, s))>>
            \o SplitFrom(t, MatchEnd(t, s) + 1, MatchEnd(t, s) + 1)
    ELSE SplitFrom(t, s + 1, from)

InlineSplit(t) == SplitFrom(t, 1, 1)

\* a run that comes out underlined whatever made it
TextRunUnderlined(t, bold, italic) ==
    [text |-> t, bold |-> bold, italic |-> italic, strike |-> FALSE,
     underline |-> TRUE, code |-> FALSE, link |-> FALSE, url |-> <<>>,
     brk |-> FALSE]

\* paragraph.add_run(text) followed by _apply_formatting(run, bold, italic)
TextRun(t, bold, italic) ==
    [text |-> t, bold |-> bold, italic |-> italic, strike |-> FALSE,
     underline |-> FALSE, code |-> FALSE, link |-> FALSE, url |-> <<>>,
     brk |-> FALSE]

\* the run add_hyperlink appends: underlined and coloured, nothing else set
add_hyperlink(link_text, link_url) ==
    [TextRun(link_text, FALSE, FALSE) EXCEPT !.underline = TRUE, !.link = TRUE,
                                             !.url = link_url]

\* paragraph.add_run().add_break()
BreakRun == [TextRun(<<>>, FALSE, FALSE) EXCEPT !.brk = TRUE]

\* re.match of the link pattern with lazy groups on a part: the positions
\* of the first "](" and of the first ")" after it that give a match
LinkMatches(part) ==
    {jk \in (2..Len(part)) \X (2..Len(part)) :
        /\ At(part, jk[1], <<"]", "(">>)
        /\ NoNewline(part, 2, jk[1] - 1)
        /\ jk[2] >= jk[1] + 2
        /\ part[jk[2]] = ")"
        /\ NoNewline(part, jk[1] + 2, jk[2] - 1)}

LinkMatch(part) ==
    LET j == Min({jk[1] : jk \in LinkMatches(part)})
        k == Min({jk[2] : jk \in {m \in LinkMatches(part) : m[1] = j}})
    IN  [text |-> SubSeq(part, 2, j - 1), url |-> SubSeq(part, j + 2, k - 1)]

RECURSIVE _parse_formatting_segment(_, _, _, _)

\* the body of the loop of _parse_formatting_segment for one part: the runs
\* it appends
PartRuns(part, bold, italic, map) ==
    IF part = <<>> THEN <<>>
    ELSE IF /\ StartsWith(part, <<"*", "*", "*">>)
            /\ EndsWith(part, <<"*", "*", "*">>)
            /\ Len(part) > 6
    THEN _parse_formatting_segment(Strip(part, 3, 3), TRUE, TRUE, map)
    ELSE IF StartsWith(part, <<"*", "*">>) /\ EndsWith(part, <<"*", "*">>)
    THEN _parse_formatting_segment(Strip(part, 2, 2), TRUE, italic, map)
    ELSE IF StartsWith(part, <<"~", "~">>) /\ EndsWith(part, <<"~", "~">>)
    THEN <<[TextRun(_restore_escapes(Strip(part, 2, 2), map), bold, italic)
                EXCEPT !.strike = TRUE]>>
    ELSE IF /\ StartsWith(part, <<"_", "_">>)
            /\ EndsWith(part, <<"_", "_">>)
            /\ ~StartsWith(part, <<"_", "_", "_">>)
    THEN <<[TextRun(_restore_escapes(Strip(part, 2, 2), map), bold, italic)
                EXCEPT !.underline = TRUE]>>
    ELSE IF /\ StartsWith(part, <<"*">>)
            /\ EndsWith(part, <<"*">>)
            /\ ~StartsWith(part, <<"*", "*">>)
    THEN _parse_formatting_segment(Strip(part, 1, 1), bold, TRUE, map)
    ELSE IF StartsWith(part, <<Backtick>>) /\ EndsWith(part, <<Backtick>>)
    THEN <<[TextRun(_restore_escapes(Strip(part, 1, 1), map), bold, italic)
                EXCEPT !.code = TRUE]>>
    ELSE IF /\ StartsWith(part, <<"[">>)
            /\ Contains(part, <<"]", "(">>)
            /\ EndsWith(part, <<")">>)
    THEN IF LinkMatches(part) = {} THEN <<>>
         ELSE <<add_hyperlink(_restore_escapes(LinkMatch(part).text, map),
                              _restore_escapes(LinkMatch(part).url, map))>>
    ELSE <<TextRun(_restore_escapes(part, map), bold, italic)>>

RECURSIVE PartsRuns(_, _, _, _)
PartsRuns(parts, bold, italic, map) ==
    IF parts = <<>> THEN <<>>
    ELSE PartRuns(Head(parts), bold, italic, map)
            \o PartsRuns(Tail(parts), bold, italic, map)

\* the runs one call appends to the paragraph; map is _escape_map
_parse_formatting_segment(t, bold, italic, map) ==
    PartsRuns(InlineSplit(t), bold, italic, map)

HardBreak == <<" ", " ", "\n">>

\* text.split('  \n') from position s on
RECURSIVE SplitBreaksFrom(_, _, _)
SplitBreaksFrom(t, s, from) ==
    IF s > Len(t) THEN <<SubSeq(t, from, Len(t))>>
    ELSE IF At(t, s, HardBreak)
    THEN <<SubSeq(t, from, s - 1)>> \o SplitBreaksFrom(t, s + 3, s + 3)
    ELSE SplitBreaksFrom(t, s + 1, from)

\* the loop of parse_inline_formatting over line_parts, from line_idx on
\* (counted from 1)
RECURSIVE LinePartsRuns(_, _, _, _, _)
LinePartsRuns(line_parts, line_idx, bold, italic, map) ==
    IF line_idx > Len(line_parts) THEN <<>>
    ELSE (IF line_parts[line_idx] = <<>> /\ line_idx = Len(line_parts)
          THEN <<>>
          ELSE _parse_formatting_segment(line_parts[line_idx], bold, italic, map)
                  \o (IF line_idx < Len(line_parts) THEN <<BreakRun>> ELSE <<>>))
         \o LinePartsRuns(line_parts, line_idx + 1, bold, italic, map)

\* parse_inline_formatting(text, paragraph, bold, italic): the runs appended
\* and the module globals it leaves behind
parse_inline_formatting(t, bold, italic) ==
    LET h == handle_escapes(t, <<>>, 0)
    IN  [runs |-> LinePartsRuns(SplitBreaksFrom(h.text, 1, 1), 1, bold, italic, h.map),
         map |-> h.map, counter |-> h.counter]

(***************************************************************************)
(* One parse_inline_formatting call (SpecInline)                           *)
(***************************************************************************)
MaxAtoms == 3
MaxCoreAtoms == 5

LinkAtom == <<"[", "a", "]", "(", "u", ")">>

InlineAtoms ==
    {<<"a">>, <<"*">>, <<"*", "*">>, <<"\\">>, <<"~", "~">>, <<"_", "_">>,
     <<Backtick>>, LinkAtom, HardBreak, <<Placeholder(0)>>}

CoreAtoms == {<<"a">>, <<"*">>, <<"\\">>, LinkAtom}

\* **a *b* c**
NestedExample ==
    <<"*", "*", "a", " ", "*", "b", "*", " ", "c", "*", "*">>
\* \*x\*
EscapedExample == <<"\\", "*", "x", "\\", "*">>

\* ~~**a**~~ and __*a*__
StrikeBoldExample == <<"~", "~", "*", "*", "a", "*", "*", "~", "~">>
UnderlineItalicExample == <<"_", "_", "*", "a", "*", "_", "_">>

\* **~~x~~** and *__x__*
BoldStrikeExample == <<"*", "*", "~", "~", "x", "~", "~", "*", "*">>
ItalicUnderlineExample == <<"*", "_", "_", "x", "_", "_", "*">>

InlineTexts ==
    {Flatten(ss) : ss \in SeqsUpTo(InlineAtoms, MaxAtoms)}
    \cup {Flatten(ss) : ss \in SeqsUpTo(CoreAtoms, MaxCoreAtoms)}
    \cup {NestedExample, EscapedExample, StrikeBoldExample, UnderlineItalicExample,
          BoldStrikeExample, ItalicUnderlineExample}

\* what an earlier call in the same process left in the module globals
LeftOver == <<[key |-> Placeholder(0), val |-> "*"]>>

InlineInit ==
    /\ text \in InlineTexts
    /\ protected = <<>>
    /\ \/ /\ ictx \in [bold : BOOLEAN, italic : BOOLEAN]
          /\ escape_map = <<>>
          /\ escape_counter = 0
       \/ /\ ictx = [bold |-> FALSE, italic |-> FALSE]
          /\ escape_map = LeftOver
          /\ escape_counter = 1
    /\ runs = <<>>
    /\ ipc = "call"
    /\ esc = EscIdle
    /\ XlsxIdle
    /\ FormulaIdle
    /\ RestIdle

\* _escape_map.clear(); _escape_counter = 0; text = handle_escapes(text)
ProtectEscapes ==
    /\ ipc = "call"
    /\ LET h == handle_escapes(text, <<>>, 0)
       IN  /\ protected' = h.text
           /\ escape_map' = h.map
           /\ escape_counter' = h.counter
    /\ ipc' = "split"
    /\ UNCHANGED <<xlsxVars, formulaVars, restVars, text, ictx, runs, esc>>

\* the loop over text.split('  \n')
ParseLineParts ==
    /\ ipc = "split"
    /\ runs' = LinePartsRuns(SplitBreaksFrom(protected, 1, 1), 1,
                             ictx.bold, ictx.italic, escape_map)
    /\ ipc' = "done"
    /\ UNCHANGED <<xlsxVars, formulaVars, restVars, text, protected, ictx, escape_map,
                   escape_counter, esc>>

InlineNext ==
    \/ ProtectEscapes
    \/ ParseLineParts

SpecInline == InlineInit /\ [][InlineNext]_vars

NoFormat == [bold |-> FALSE, italic |-> FALSE]

\* free of *, backslash, newline and private-use characters
PlainInner(t) == \A n \in DOMAIN t : t[n] \notin {"*", "\\", "\n", Placeholder(0)}

\* ** inner **
WholeBold(t) ==
    /\ Len(t) > 4
    /\ SubSeq(t, 1, 2) = <<"*", "*">>
    /\ SubSeq(t, Len(t) - 1, Len(t)) = <<"*", "*">>
    /\ PlainInner(SubSeq(t, 3, Len(t) - 2))

\* * inner *
WholeItalic(t) ==
    /\ Len(t) > 2
    /\ t[1] = "*"
    /\ t[Len(t)] = "*"
    /\ PlainInner(SubSeq(t, 2, Len(t) - 1))

\* C9: every run emitted inside a bold span or under an inherited bold is
\* bold, every run inside an italic span or under an inherited italic is
\* italic, whatever kind the run is (plain, strikethrough, underline, code,
\* link); **a *b* c** yields bold "a ", bold+italic "b", bold " c".
C9_BoldItalicAccumulate ==
    ipc = "done" =>
        /\ \A n \in DOMAIN runs :
              ~runs[n].brk => /\ ictx.bold => runs[n].bold
                              /\ ictx.italic => runs[n].italic
        /\ WholeBold(text) => \A n \in DOMAIN runs : runs[n].bold
        /\ WholeItalic(text) => \A n \in DOMAIN runs : runs[n].italic
        /\ (text = NestedExample /\ ictx = NoFormat) =>
              runs = <<TextRun(<<"a", " ">>, TRUE, FALSE),
                       TextRun(<<"b">>, TRUE, TRUE),
                       TextRun(<<" ", "c">>, TRUE, FALSE)>>

Delimiters == {"*", "~", "_", Backtick, "[", "]", "(", ")", "\\"}
Letters == {"a", "b", "x", " "}

\* the text is made of letters and escaped characters only
RECURSIVE EscapedOnlyFrom(_, _)
EscapedOnlyFrom(t, i) ==
    \/ i > Len(t)
    \/ /\ t[i] = "\\"
       /\ i < Len(t)
       /\ t[i + 1] \in Delimiters \cup Letters
       /\ EscapedOnlyFrom(t, i + 2)
    \/ /\ t[i] \in Letters
       /\ EscapedOnlyFrom(t, i + 1)

\* the text with every escape \c turned into c
RECURSIVE UnescapeFrom(_, _)
UnescapeFrom(t, i) ==
    IF i > Len(t) THEN <<>>
    ELSE IF t[i] = "\\" /\ i < Len(t) /\ t[i + 1] # "\n"
    THEN <<t[i + 1]>> \o UnescapeFrom(t, i + 2)
    ELSE <<t[i]>> \o UnescapeFrom(t, i + 1)

\* an ordinary character that is no delimiter, one per escape
Neutral(k) == "Z" \o ToString(k)

\* the text with its k-th escape (counted from 0) turned into Neutral(k)
RECURSIVE NeutralizeFrom(_, _, _)
NeutralizeFrom(t, i, k) ==
    IF i > Len(t) THEN <<>>
    ELSE IF t[i] = "\\" /\ i < Len(t) /\ t[i + 1] # "\n"
    THEN <<Neutral(k)>> \o NeutralizeFrom(t, i + 2, k + 1)
    ELSE <<t[i]>> \o NeutralizeFrom(t, i + 1, k)

\* the characters escaped in the text, in order
RECURSIVE EscapedChars(_, _)
EscapedChars(t, i) ==
    IF i > Len(t) THEN <<>>
    ELSE IF t[i] = "\\" /\ i < Len(t) /\ t[i + 1] # "\n"
    THEN <<t[i + 1]>> \o EscapedChars(t, i + 2)
    ELSE EscapedChars(t, i + 1)

\* run text u with Neutral(k) turned into the k-th escaped character
Literal(u, chars) ==
    [n \in DOMAIN u |->
        IF \E k \in DOMAIN chars : u[n] = Neutral(k - 1)
        THEN chars[CHOOSE k \in DOMAIN chars : u[n] = Neutral(k - 1)]
        ELSE u[n]]

\* C10: \*x\* yields the single run *x*, not italic; a text made of letters
\* and escaped characters yields one unformatted run holding the characters
\* without their backslashes; and in any text free of private-use
\* characters every escaped character is treated as an ordinary letter
\* would be (it opens and closes no span) and comes out as itself.
C10_EscapeSuppressesFormatting ==
    ipc = "done" =>
        /\ (text = EscapedExample /\ ictx = NoFormat) =>
              runs = <<TextRun(<<"*", "x", "*">>, FALSE, FALSE)>>
        /\ (text # <<>> /\ EscapedOnlyFrom(text, 1)) =>
              runs = <<TextRun(UnescapeFrom(text, 1), ictx.bold, ictx.italic)>>
        /\ (\A n \in DOMAIN text : text[n] # Placeholder(0)) =>
              LET plain == parse_inline_formatting(NeutralizeFrom(text, 1, 0),
                                                   ictx.bold, ictx.italic).runs
                  chars == EscapedChars(text, 1)
              IN  runs = [n \in DOMAIN plain |->
                            [plain[n] EXCEPT !.text = Literal(@, chars),
                                             !.url = Literal(@, chars)]]

\* \*x\* came out as the one plain run *x*
C10_Witness ==
    /\ ipc = "done"
    /\ text = EscapedExample
    /\ ictx = NoFormat
    /\ runs = <<TextRun(<<"*", "x", "*">>, FALSE, FALSE)>>

(***************************************************************************)
(* handle_escapes and _restore_escapes called on their own, one call after *)
(* the other in one process (SpecEscapes): the module globals are what the *)
(* earlier calls left.                                                     *)
(***************************************************************************)
MaxEscLen == 3
MaxEscCalls == 2

EscapeChars == {"a", "*", "\\", Placeholder(0)}
EscapeTexts == SeqsUpTo(EscapeChars, MaxEscLen)

EscapesInit ==
    /\ text \in EscapeTexts
    /\ protected = <<>>
    /\ ictx = [bold |-> FALSE, italic |-> FALSE]
    /\ escape_map = <<>>
    /\ escape_counter = 0
    /\ runs = <<>>
    /\ ipc = "call"
    /\ esc = [restored |-> <<>>, calls |-> 1]
    /\ XlsxIdle
    /\ FormulaIdle
    /\ RestIdle

\* protected = handle_escapes(text): the globals are neither cleared nor reset
HandleEscapesCall ==
    /\ ipc = "call"
    /\ LET h == handle_escapes(text, escape_map, escape_counter)
       IN  /\ protected' = h.text
           /\ escape_map' = h.map
           /\ escape_counter' = h.counter
    /\ ipc' = "escaped"
    /\ UNCHANGED <<xlsxVars, formulaVars, restVars, text, ictx, runs, esc>>

\* restored = _restore_escapes(protected)
RestoreEscapesCall ==
    /\ ipc = "escaped"
    /\ esc' = [esc EXCEPT !.restored = _restore_escapes(protected, escape_map)]
    /\ ipc' = "restored"
    /\ UNCHANGED <<xlsxVars, formulaVars, restVars, text, protected, ictx, escape_map,
                   escape_counter, runs>>

\* the process goes on to another text
NextEscapesCall ==
    /\ ipc = "restored"
    /\ esc.calls < MaxEscCalls
    /\ text' \in EscapeTexts
    /\ protected' = <<>>
    /\ esc' = [restored |-> <<>>, calls |-> esc.calls + 1]
    /\ ipc' = "call"
    /\ UNCHANGED <<xlsxVars, formulaVars, restVars, ictx, escape_map, escape_counter, runs>>

EscapesNext ==
    \/ HandleEscapesCall
    \/ RestoreEscapesCall
    \/ NextEscapesCall

SpecEscapes == EscapesInit /\ [][EscapesNext]_vars

NoBackslash(t) == \A n \in DOMAIN t : t[n] # "\\"

\* C11: for every text T that holds no backslash,
\* _restore_escapes(handle_escapes(T)) = T.
C11_RestoreProtectIdentity ==
    (ipc = "restored" /\ NoBackslash(text)) => esc.restored = text

(***************************************************************************)
(* One parse_table call (SpecTable)                                        *)
(***************************************************************************)
MaxTableLines == 4

\* | a |
Row1 == PipeLine(<<TextCell(<<"a">>)>>)
\* | a | b |
Row2 == PipeLine(<<TextCell(<<"a">>), TextCell(<<"b">>)>>)
\* |---|
Sep1 == PipeLine(<<TextCell(<<"-", "-", "-">>)>>)
\* | a---b |
HyphenRow == PipeLine(<<TextCell(<<"a", "-", "-", "-", "b">>)>>)
\* |--|
ShortDash == PipeLine(<<TextCell(<<"-", "-">>)>>)
\* |
BarOnly == PipeLine(<<>>)

TableLineKinds ==
    {TextLine, OpenPipeLine, Row1, Row2, Sep1, HyphenRow, ShortDash, BarOnly}

TableCalls ==
    {[st |-> "call", lines |-> ls, start_idx |-> n] :
        ls \in SeqsUpTo(TableLineKinds, MaxTableLines) \ {<<>>},
        n \in 1..MaxTableLines}

TableInit ==
    /\ tbl \in {c \in TableCalls : c.start_idx <= Len(c.lines)}
    /\ XlsxIdle
    /\ FormulaIdle
    /\ InlineIdle
    /\ RestIdleExcept("tbl")

\* table_data, i = parse_table(lines, start_idx)
ParseTableCall ==
    /\ tbl.st = "call"
    /\ tbl' = [st |-> "returned", lines |-> tbl.lines, start_idx |-> tbl.start_idx,
               ret |-> parse_table(tbl.lines, tbl.start_idx)]
    /\ UNCHANGED <<xlsxVars, formulaVars, inlineVars, lst, auth, upl, conc, blk>>

TableNext == ParseTableCall

SpecTable == TableInit /\ [][TableNext]_vars

\* the line starts and ends with |
PipeBounded(line) == line \in {Row1, Row2, Sep1, HyphenRow, ShortDash, BarOnly}

\* how many consecutive pipe-bounded lines start at index n
PipeRun(ls, n) ==
    CHOOSE m \in 0..Len(ls) :
        /\ \A q \in n..(n + m - 1) : q <= Len(ls) /\ PipeBounded(ls[q])
        /\ ~(n + m <= Len(ls) /\ PipeBounded(ls[n + m]))

\* C12: a grid is returned exactly when at least two consecutive
\* pipe-bounded lines start at start_idx; one such line gives no grid and
\* next_index = start_idx + 1; header + separator alone give the 1-row grid
\* of the header and next_index = start_idx + 2; whenever a grid is
\* returned next_index is the first line after the pipe-bounded lines.
C12_TableBlockAcceptance ==
    tbl.st = "returned" =>
        LET n == PipeRun(tbl.lines, tbl.start_idx)
            at == tbl.start_idx
        IN  /\ tbl.ret.none <=> n < 2
            /\ n = 1 => tbl.ret.next = at + 1
            /\ (n = 2 /\ tbl.lines[at] \in {Row1, Row2} /\ tbl.lines[at + 1] = Sep1) =>
                  /\ tbl.ret.data = <<tbl.lines[at].cells>>
                  /\ tbl.ret.next = at + 2
            /\ ~tbl.ret.none => tbl.ret.next = at + n

\* text, then | a | b | and |---| : the header alone, next index 4
C12_Witness ==
    /\ tbl.st = "returned"
    /\ tbl.lines = <<TextLine, Row2, Sep1>>
    /\ tbl.start_idx = 2
    /\ tbl.ret = [none |-> FALSE, data |-> <<Row2.cells>>, next |-> 4]

\* C13: all rows of the grid parse_table returns have the same number of
\* cells.
C13_GridRectangular ==
    (tbl.st = "returned" /\ ~tbl.ret.none) =>
        \A r1, r2 \in DOMAIN tbl.ret.data :
            Len(tbl.ret.data[r1]) = Len(tbl.ret.data[r2])

(***************************************************************************)
(* process_list_items (docx_tools/helpers.py).  A line is its number of    *)
(* leading whitespace characters and what its stripped text matches:       *)
(*   "ul"     the unordered item pattern                                   *)
(*   "ol"     the ordered item pattern                                     *)
(*   "blank"  nothing left after strip()                                   *)
(*   "text"   anything else                                                *)
(***************************************************************************)
ListLine(indent, kind) == [indent |-> indent, kind |-> kind]

bullet_styles == <<"List Bullet", "List Bullet 2", "List Bullet 3">>
number_styles == <<"List Number", "List Number 2", "List Number 3">>

\* a level of two leading characters
current_level_by_two(line) == line.indent \div 2

\* indent // 3
current_level(line) == line.indent \div 3

\* style_array[min(level, len(style_array) - 1)]
ListStyle(is_ordered, level) ==
    LET style_array == IF is_ordered THEN number_styles ELSE bullet_styles
        last == Len(style_array) - 1
    IN  style_array[(IF level < last THEN level ELSE last) + 1]

\* list_match of the outer loop
ListMatch(line, is_ordered) == line.kind = (IF is_ordered THEN "ol" ELSE "ul")

\* The outer loop of one call from line i on (ListOuter) and its look-ahead
\* loop (ListAhead); paras are the paragraphs created so far, in order.
RECURSIVE ListOuter(_, _, _, _, _)
RECURSIVE ListAhead(_, _, _, _, _)
ListOuter(ls, i, is_ordered, level, paras) ==
    IF i > Len(ls) THEN [next |-> i, paras |-> paras]
    ELSE IF current_level(ls[i]) # level THEN [next |-> i, paras |-> paras]
    ELSE IF ~ListMatch(ls[i], is_ordered) THEN [next |-> i, paras |-> paras]
    ELSE ListAhead(ls, i + 1, is_ordered, level,
                   Append(paras, [style |-> ListStyle(is_ordered, level),
                                  level |-> level, line |-> i]))

ListAhead(ls, i, is_ordered, level, paras) ==
    IF i > Len(ls) THEN ListOuter(ls, i, is_ordered, level, paras)
    ELSE IF ls[i].kind = "blank" THEN ListAhead(ls, i + 1, is_ordered, level, paras)
    ELSE IF current_level(ls[i]) > level /\ ls[i].kind \in {"ol", "ul"}
    THEN LET nested == ListOuter(ls, i, ls[i].kind = "ol", current_level(ls[i]), paras)
         IN  ListAhead(ls, nested.next, is_ordered, level, nested.paras)
    ELSE ListOuter(ls, i, is_ordered, level, paras)

\* process_list_items(lines, start_idx, doc, is_ordered, level,
\* return_elements): the next index, the paragraphs left in the document
\* and the elements returned
process_list_items(ls, start_idx, is_ordered, level, return_elements) ==
    LET r == ListOuter(ls, start_idx, is_ordered, level, <<>>)
    IN  [next |-> r.next,
         doc |-> IF return_elements THEN <<>> ELSE r.paras,
         elements |-> IF return_elements THEN r.paras ELSE <<>>,
         created |-> r.paras]

(***************************************************************************)
(* One process_list_items call at level 0 (SpecList)                       *)
(***************************************************************************)
MaxListLines == 3

ListLineKinds ==
    {ListLine(n, "ul") : n \in {0, 2, 3, 4, 6, 9}}
    \cup {ListLine(n, "ol") : n \in {0, 3, 6}}
    \cup {ListLine(0, "text"), ListLine(3, "text"), ListLine(0, "blank")}

ListCalls ==
    {[st |-> "call", lines |-> ls, start_idx |-> n, is_ordered |-> o,
      return_elements |-> e] :
        ls \in SeqsUpTo(ListLineKinds, MaxListLines) \ {<<>>},
        n \in 1..2, o \in BOOLEAN, e \in BOOLEAN}

ListInit ==
    /\ lst \in {c \in ListCalls : c.start_idx <= Len(c.lines)}
    /\ XlsxIdle
    /\ FormulaIdle
    /\ InlineIdle
    /\ RestIdleExcept("lst")

ProcessListItemsCall ==
    /\ lst.st = "call"
    /\ lst' = [st |-> "returned", lines |-> lst.lines, start_idx |-> lst.start_idx,
               is_ordered |-> lst.is_ordered, return_elements |-> lst.return_elements,
               ret |-> process_list_items(lst.lines, lst.start_idx, lst.is_ordered, 0,
                                          lst.return_elements)]
    /\ UNCHANGED <<xlsxVars, formulaVars, inlineVars, tbl, auth, upl, conc, blk>>

ListNext == ProcessListItemsCall

SpecList == ListInit /\ [][ListNext]_vars

\* C14: the paragraph of a list line is created at level
\* floor(leading whitespace / 3) (3 spaces: level 1, 6 spaces: level 2) and
\* carries entry min(level, 2) of the bullet or number style table, so every
\* level >= 2 carries the third style.
C14_ListLevelAndStyle ==
    lst.st = "returned" =>
        \A n \in DOMAIN lst.ret.created :
            LET para == lst.ret.created[n]
                line == lst.lines[para.line]
                third == para.level >= 2
            IN  /\ 3 * para.level <= line.indent
                /\ line.indent < 3 * para.level + 3
                /\ line.indent = 0 => para.level = 0
                /\ line.indent = 3 => para.level = 1
                /\ line.indent = 6 => para.level = 2
                /\ line.kind \in {"ul", "ol"}
                /\ para.style =
                     CASE line.kind = "ul" /\ para.level = 0 -> "List Bullet"
                       [] line.kind = "ul" /\ para.level = 1 -> "List Bullet 2"
                       [] line.kind = "ul" /\ third -> "List Bullet 3"
                       [] line.kind = "ol" /\ para.level = 0 -> "List Number"
                       [] line.kind = "ol" /\ para.level = 1 -> "List Number 2"
                       [] line.kind = "ol" /\ third -> "List Number 3"

\* an unindented item, one indented by 3 and one indented by 9
C14_Witness ==
    /\ lst.st = "returned"
    /\ lst.lines = <<ListLine(0, "ul"), ListLine(3, "ul"), ListLine(9, "ul")>>
    /\ lst.start_idx = 1
    /\ [n \in DOMAIN lst.ret.created |-> lst.ret.created[n].style]
          = <<"List Bullet", "List Bullet 2", "List Bullet 3">>
    /\ lst.ret.created[3].level = 3

(***************************************************************************)
(* ApiKeyAuthMiddleware (middleware.py).  A header value is a sequence of  *)
(* characters that may open with one of the spellings of the seven         *)
(* characters "Bearer " taken as one unit; a header name is a string.      *)
(***************************************************************************)
BearerSpellings == {"Bearer ", "bearer ", "BEARER "}

\* str.lower() on a header name
LowerName(k) ==
    CASE k \in {"Authorization", "AUTHORIZATION", "authorization"} -> "authorization"
      [] k \in {"x-api-key", "X-Api-Key", "X-API-KEY"} -> "x-api-key"
      [] k = "Content-Type" -> "content-type"
      [] OTHER -> k

\* str.lower() on a header value
LowerValue(v) ==
    [n \in DOMAIN v |-> IF v[n] \in BearerSpellings THEN "bearer " ELSE v[n]]

\* str.strip()
RECURSIVE StripSpaces(_)
StripSpaces(v) ==
    IF v = <<>> THEN v
    ELSE IF Head(v) = " " THEN StripSpaces(Tail(v))
    ELSE IF v[Len(v)] = " " THEN StripSpaces(SubSeq(v, 1, Len(v) - 1))
    ELSE v

\* {k.lower(): v for k, v in headers.items()}, from entry n on
RECURSIVE LowerHeaders(_, _, _)
LowerHeaders(headers, n, lower) ==
    IF n > Len(headers) THEN lower
    ELSE LowerHeaders(headers, n + 1,
                      DictSet(lower, LowerName(headers[n].key), headers[n].val))

\* the value None
NoKey == [none |-> TRUE, s |-> <<>>]
Key(s) == [none |-> FALSE, s |-> s]

\* dict.get(name): None when the name is missing
HeaderGet(lower, name) == IF DictHas(lower, name) THEN Key(DictGet(lower, name)) ELSE NoKey

\* `if auth:` -- neither None nor the empty string
NonEmpty(v) == ~v.none /\ v.s # <<>>

\* an extraction that reads x-api-key before Authorization
extract_key_x_first(headers) ==
    LET lower == LowerHeaders(headers, 1, <<>>)
        auth_header == HeaderGet(lower, "authorization")
        api_key == HeaderGet(lower, "x-api-key")
    IN  IF NonEmpty(api_key) THEN Key(StripSpaces(api_key.s))
        ELSE IF NonEmpty(auth_header)
        THEN IF Len(auth_header.s) >= 1 /\ LowerValue(auth_header.s)[1] = "bearer "
             THEN Key(StripSpaces(Tail(auth_header.s)))
             ELSE Key(StripSpaces(auth_header.s))
        ELSE NoKey

\* ApiKeyAuthMiddleware._extract_key(headers)
_extract_key(headers) ==
    LET lower == LowerHeaders(headers, 1, <<>>)
        auth_header == HeaderGet(lower, "authorization")
        api_key == HeaderGet(lower, "x-api-key")
    IN  IF NonEmpty(auth_header)
        THEN IF Len(auth_header.s) >= 1 /\ LowerValue(auth_header.s)[1] = "bearer "
             THEN Key(StripSpaces(Tail(auth_header.s)))
             ELSE Key(StripSpaces(auth_header.s))
        ELSE IF NonEmpty(api_key) THEN Key(StripSpaces(api_key.s))
        ELSE NoKey

(***************************************************************************)
(* One on_request call (SpecAuth)                                          *)
(***************************************************************************)
MaxKeyLen == 2

KeyChars == {"k", "w", " "}
PlainValues == SeqsUpTo(KeyChars, MaxKeyLen)
AuthValues == PlainValues \cup {<<b>> \o v : b \in BearerSpellings, v \in PlainValues}

\* the keys a middleware is constructed with (never empty, line 41)
ExpectedKeys == {<<"k">>, <<"k", "w">>, <<" ", "k">>}

HeaderEntry(name, v) == <<[key |-> name, val |-> v]>>

\* what get_http_headers() returns: None, or a dict
HeaderDicts ==
    {HeaderEntry("Content-Type", <<"w">>)}
    \cup {a \o x :
            a \in {<<>>} \cup {HeaderEntry("Authorization", v) : v \in AuthValues},
            x \in {<<>>} \cup {HeaderEntry("x-api-key", v) : v \in PlainValues}}
    \cup {x \o a :
            a \in {HeaderEntry("AUTHORIZATION", v) : v \in AuthValues},
            x \in {<<>>} \cup {HeaderEntry("X-Api-Key", v) : v \in PlainValues}}
    \cup {HeaderEntry("Authorization", v) \o HeaderEntry("AUTHORIZATION", <<"k">>) :
            v \in PlainValues}

AuthInit ==
    /\ \E h \in HeaderDicts, none \in BOOLEAN, e \in ExpectedKeys :
          auth = [st |-> "request", expected_key |-> e,
                  http_headers |-> IF none THEN NoKey ELSE Key(h),
                  api_key |-> NoKey, compared |-> <<>>, digest_calls |-> <<>>,
                  call_next |-> 0, outcome |-> "none"]
    /\ XlsxIdle
    /\ FormulaIdle
    /\ InlineIdle
    /\ RestIdleExcept("auth")

\* headers = get_http_headers() or {}; api_key = self._extract_key(headers)
ExtractKey ==
    /\ auth.st = "request"
    /\ LET headers == IF auth.http_headers.none THEN <<>> ELSE auth.http_headers.s
       IN  auth' = [auth EXCEPT !.st = "extracted", !.api_key = _extract_key(headers)]
    /\ UNCHANGED <<xlsxVars, formulaVars, inlineVars, tbl, lst, upl, conc, blk>>

\* if api_key != self.expected_key: raise AuthorizationError
RejectRequest ==
    /\ auth.st = "extracted"
    /\ auth.api_key # Key(auth.expected_key)
    /\ auth' = [auth EXCEPT !.st = "done", !.outcome = "AuthorizationError",
                            !.compared = Append(@, "!=")]
    /\ UNCHANGED <<xlsxVars, formulaVars, inlineVars, tbl, lst, upl, conc, blk>>

\* return await call_next(context): the call is made
CallNext ==
    /\ auth.st = "extracted"
    /\ auth.api_key = Key(auth.expected_key)
    /\ auth' = [auth EXCEPT !.st = "awaiting", !.call_next = @ + 1,
                            !.compared = Append(@, "!=")]
    /\ UNCHANGED <<xlsxVars, formulaVars, inlineVars, tbl, lst, upl, conc, blk>>

\* call_next returns and on_request returns its result
CallNextReturns ==
    /\ auth.st = "awaiting"
    /\ auth' = [auth EXCEPT !.st = "done", !.outcome = "result of call_next"]
    /\ UNCHANGED <<xlsxVars, formulaVars, inlineVars, tbl, lst, upl, conc, blk>>

\* call_next raises and the exception leaves on_request
CallNextRaises ==
    /\ auth.st = "awaiting"
    /\ auth' = [auth EXCEPT !.st = "done", !.outcome = "exception of call_next"]
    /\ UNCHANGED <<xlsxVars, formulaVars, inlineVars, tbl, lst, upl, conc, blk>>

AuthNext ==
    \/ ExtractKey
    \/ RejectRequest
    \/ CallNext
    \/ CallNextReturns
    \/ CallNextRaises

SpecAuth == AuthInit /\ [][AuthNext]_vars

\* the value of the header whose name is name in any spelling, the last
\* such header winning; <<>> when there is none
HeaderValue(name) ==
    LET hs == IF auth.http_headers.none THEN <<>> ELSE auth.http_headers.s
        ns == {n \in DOMAIN hs : LowerName(hs[n].key) = name}
    IN  IF ns = {} THEN <<>> ELSE hs[CHOOSE n \in ns : \A m \in ns : m <= n].val

\* the key the request presents: the Authorization value without its
\* Bearer scheme if there is a non-empty one, else the x-api-key value
PresentedKey ==
    LET a == HeaderValue("authorization")
        x == HeaderValue("x-api-key")
    IN  IF a # <<>>
        THEN StripSpaces(IF a[1] \in BearerSpellings THEN Tail(a) ELSE a)
        ELSE StripSpaces(x)

KeyPresented == HeaderValue("authorization") # <<>> \/ HeaderValue("x-api-key") # <<>>

C16_ConstantTimeComparison ==
    auth.st \in {"awaiting", "done"} =>
        /\ auth.digest_calls = <<<<auth.api_key, Key(auth.expected_key)>>>>
        /\ auth.compared = <<>>

(***************************************************************************)
(* upload_file (upload_tools/main.py)                                      *)
(***************************************************************************)
\* the value None, and a string value, of a backend's result
NoResult == [none |-> TRUE, s |-> ""]
Result(s) == [none |-> FALSE, s |-> s]

\* the if/elif chain on UPLOAD_STRATEGY: the backend called, "" for the else branch
SelectBackend(strategy) ==
    CASE strategy = "LOCAL" -> "upload_to_local_folder"
      [] strategy = "S3" -> "upload_to_s3"
      [] strategy = "GCS" -> "upload_to_gcs"
      [] strategy = "AZURE" -> "upload_to_azure"
      [] strategy = "MINIO" -> "upload_to_minio"
      [] OTHER -> ""

\* the exception classes that are RuntimeError or derive from it
RuntimeErrors == {"RuntimeError", "NotImplementedError"}

\* what leaves the second try block when the backend raises e
BackendFailure(e) ==
    IF e \in RuntimeErrors THEN e ELSE "RuntimeError"

\* a check of the result that lets None through
ResultCheckMissing(result) == [outcome |-> "returned", value |-> result]

\* if result is None: raise RuntimeError; return result
ResultCheck(result) ==
    IF result.none
    THEN [outcome |-> "RuntimeError", value |-> NoResult]
    ELSE [outcome |-> "returned", value |-> result]

(***************************************************************************)
(* One upload_file call (SpecUpload)                                       *)
(***************************************************************************)
Strategies == {"LOCAL", "S3", "GCS", "AZURE", "MINIO", "", "local", "FTP"}
Suffixes == {"pptx", "docx", "xlsx", "eml"}
BackendResults == {NoResult, Result(""), Result("url"), Result("path")}
BackendExceptions == {"RuntimeError", "NotImplementedError", "OSError", "ValueError"}

UploadInit ==
    /\ \E strategy \in Strategies, suffix \in Suffixes :
          upl = [st |-> "called", UPLOAD_STRATEGY |-> strategy, suffix |-> suffix,
                 object_name |-> "", name_failed |-> FALSE,
                 backend_calls |-> <<>>, backend |-> "none",
                 result |-> NoResult, outcome |-> "none", value |-> NoResult]
    /\ XlsxIdle
    /\ FormulaIdle
    /\ InlineIdle
    /\ RestIdleExcept("upl")

\* object_name = generate_unique_object_name(suffix)
GenerateObjectName ==
    /\ upl.st = "called"
    /\ upl' = [upl EXCEPT !.st = "named", !.object_name = "name." \o upl.suffix]
    /\ UNCHANGED <<xlsxVars, formulaVars, inlineVars, tbl, lst, auth, conc, blk>>

\* generate_unique_object_name raises: RuntimeError("Error preparing upload")
GenerateObjectNameRaises ==
    /\ upl.st = "called"
    /\ upl' = [upl EXCEPT !.st = "done", !.name_failed = TRUE,
                          !.outcome = "RuntimeError"]
    /\ UNCHANGED <<xlsxVars, formulaVars, inlineVars, tbl, lst, auth, conc, blk>>

\* the branch of the selected strategy calls its backend
InvokeBackend ==
    /\ upl.st = "named"
    /\ SelectBackend(upl.UPLOAD_STRATEGY) # ""
    /\ upl' = [upl EXCEPT !.st = "uploading",
                          !.backend_calls = Append(@, SelectBackend(upl.UPLOAD_STRATEGY))]
    /\ UNCHANGED <<xlsxVars, formulaVars, inlineVars, tbl, lst, auth, conc, blk>>

\* the else branch: RuntimeError("No upload strategy set, ...")
NoUploadStrategy ==
    /\ upl.st = "named"
    /\ SelectBackend(upl.UPLOAD_STRATEGY) = ""
    /\ upl' = [upl EXCEPT !.st = "done", !.outcome = "RuntimeError"]
    /\ UNCHANGED <<xlsxVars, formulaVars, inlineVars, tbl, lst, auth, conc, blk>>

\* the backend returns; result is checked and returned
BackendReturns ==
    /\ upl.st = "uploading"
    /\ \E r \in BackendResults :
          upl' = [upl EXCEPT !.st = "done", !.backend = "returned", !.result = r,
                             !.outcome = ResultCheck(r).outcome,
                             !.value = ResultCheck(r).value]
    /\ UNCHANGED <<xlsxVars, formulaVars, inlineVars, tbl, lst, auth, conc, blk>>

\* the backend raises: a RuntimeError passes, anything else is wrapped
BackendRaises ==
    /\ upl.st = "uploading"
    /\ \E e \in BackendExceptions :
          upl' = [upl EXCEPT !.st = "done", !.backend = "raised: " \o e,
                             !.outcome = BackendFailure(e)]
    /\ UNCHANGED <<xlsxVars, formulaVars, inlineVars, tbl, lst, auth, conc, blk>>

UploadNext ==
    \/ GenerateObjectName
    \/ GenerateObjectNameRaises
    \/ InvokeBackend
    \/ NoUploadStrategy
    \/ BackendReturns
    \/ BackendRaises

SpecUpload == UploadInit /\ [][UploadNext]_vars

KnownStrategies == {"LOCAL", "S3", "GCS", "AZURE", "MINIO"}

\* C17: upload_file returns a value only when the backend selected by
\* UPLOAD_STRATEGY returned something other than None, and then returns
\* that; in every other case (name generation fails, no known strategy,
\* backend raises, backend returns None) it raises a RuntimeError and
\* never returns None.  At most one backend is called, at most once, and
\* none when name generation fails.
C17_UploadReturnsOrRaises ==
    /\ Len(upl.backend_calls) <= 1
    /\ upl.backend_calls # <<>> =>
          /\ upl.UPLOAD_STRATEGY \in KnownStrategies
          /\ upl.backend_calls = <<SelectBackend(upl.UPLOAD_STRATEGY)>>
    /\ upl.name_failed => upl.backend_calls = <<>>
    /\ upl.st # "done" => upl.outcome = "none"
    /\ upl.st = "done" =>
          IF /\ ~upl.name_failed
             /\ upl.UPLOAD_STRATEGY \in KnownStrategies
             /\ upl.backend = "returned"
             /\ ~upl.result.none
          THEN upl.outcome = "returned" /\ upl.value = upl.result
          ELSE upl.outcome \in RuntimeErrors /\ upl.value = NoResult

\* the S3 backend returned None and upload_file raised
C17_Witness ==
    /\ upl.st = "done"
    /\ upl.UPLOAD_STRATEGY = "S3"
    /\ upl.backend_calls = <<"upload_to_s3">>
    /\ upl.backend = "returned"
    /\ upl.result = NoResult
    /\ upl.outcome = "RuntimeError"

(***************************************************************************)
(* Two conversions in one process (SpecConcurrent).  Each worker runs      *)
(* parse_inline_formatting on its own text; _escape_map and                *)
(* _escape_counter are the module globals of helpers.py, one pair for the  *)
(* process.  A worker's call is two steps: the clearing of the globals     *)
(* with handle_escapes, and the loop over the line parts with its          *)
(* _restore_escapes calls.                                                 *)
(***************************************************************************)
MaxConcLen == 2

Workers == {1, 2}
ConcChars == {"a", "*", "_", "\\"}
ConcTexts == SeqsUpTo(ConcChars, MaxConcLen)

ConcurrentInit ==
    /\ conc \in [Workers -> {[st |-> "call", text |-> t, protected |-> <<>>, runs |-> <<>>] :
                                t \in ConcTexts}]
    /\ escape_map = <<>>
    /\ escape_counter = 0
    /\ esc = EscIdle
    /\ text = <<>>
    /\ protected = <<>>
    /\ ictx = [bold |-> FALSE, italic |-> FALSE]
    /\ runs = <<>>
    /\ ipc = "idle"
    /\ XlsxIdle
    /\ FormulaIdle
    /\ RestIdleExcept("conc")

\* worker w: _escape_map.clear(); _escape_counter = 0; text = handle_escapes(text)
WorkerProtects(w) ==
    /\ conc[w].st = "call"
    /\ LET h == handle_escapes(conc[w].text, <<>>, 0)
       IN  /\ conc' = [conc EXCEPT ![w].st = "split", ![w].protected = h.text]
           /\ escape_map' = h.map
           /\ escape_counter' = h.counter
    /\ UNCHANGED <<xlsxVars, formulaVars, text, protected, ictx, runs, ipc, esc,
                   tbl, lst, auth, upl, blk>>

\* worker w: the loop over text.split('  \n'), restoring from the globals
WorkerParses(w) ==
    /\ conc[w].st = "split"
    /\ conc' = [conc EXCEPT ![w].st = "done",
                            ![w].runs = LinePartsRuns(SplitBreaksFrom(conc[w].protected, 1, 1),
                                                      1, FALSE, FALSE, escape_map)]
    /\ UNCHANGED <<xlsxVars, formulaVars, text, protected, ictx, runs, ipc, esc,
                   escape_map, escape_counter, tbl, lst, auth, upl, blk>>

ConcurrentNext ==
    \/ \E w \in Workers : WorkerProtects(w)
    \/ \E w \in Workers : WorkerParses(w)

SpecConcurrent == ConcurrentInit /\ [][ConcurrentNext]_vars

\* C18: the escape map and counter belong to one conversion: whatever the
\* interleaving of two conversions between handle_escapes and the
\* _restore_escapes calls, each produces the runs it produces alone.
C18_ConversionsIndependent ==
    \A w \in Workers :
        conc[w].st = "done" =>
            conc[w].runs = parse_inline_formatting(conc[w].text, FALSE, FALSE).runs

(***************************************************************************)
(* process_markdown_block (helpers.py).  A line is ListLine(indent, kind)  *)
(* with the kinds of the block patterns; a body element is El(type, line). *)
(* A branch of the function is the sequence of document operations it      *)
(* performs, any of which may raise.                                       *)
(***************************************************************************)
El(type, line) == [type |-> type, line |-> line, filled |-> FALSE]

\* doc.add_...(), parse_inline_formatting into it and, with return_element,
\* its move from the body to the list named by to
ParaOps(type, line, to, return_element) ==
    <<[op |-> "add", el |-> El(type, line), to |-> to],
      [op |-> "fill", el |-> El(type, line), to |-> to]>>
    \o (IF return_element
        THEN <<[op |-> "collect", el |-> El(type, line), to |-> to]>>
        ELSE <<>>)

\* an element added without inline text (page break, horizontal line)
BareOps(type, line, return_element) ==
    <<[op |-> "add", el |-> El(type, line), to |-> "outer"]>>
    \o (IF return_element
        THEN <<[op |-> "collect", el |-> El(type, line), to |-> "outer"]>>
        ELSE <<>>)

\* _ALIGN_CLOSE_RE: a line </center> ("align_close") or </div> ("div_close")
AlignCloseKinds == {"align_close", "div_close"}

\* _ALIGN_OPEN_RE: a line <center> ("align_open") or <div align="right">
\* ("div_open")
AlignOpenKinds == {"align_open", "div_open"}

\* detect_alignment on an open line: the style of the region's paragraphs
RegionAlignment(kind) == IF kind = "div_open" THEN "AlignedRight" ELSE "Aligned"

\* process_alignment_block(lines, i, ...): the lines that become paragraphs
\* and the index after the block
RECURSIVE AlignScan(_, _, _)
AlignScan(ls, i, paras) ==
    IF i > Len(ls) THEN [next |-> i, paras |-> paras]
    ELSE IF ls[i].kind \in AlignCloseKinds THEN [next |-> i + 1, paras |-> paras]
    ELSE IF ls[i].kind = "blank" THEN AlignScan(ls, i + 1, paras)
    ELSE AlignScan(ls, i + 1, Append(paras, i))

RECURSIVE AlignOps(_, _, _, _)
AlignOps(paras, n, alignment, return_element) ==
    IF n > Len(paras) THEN <<>>
    ELSE ParaOps(alignment, paras[n], "inner", return_element)
            \o AlignOps(paras, n + 1, alignment, return_element)

RECURSIVE ListOps(_, _, _)
ListOps(paras, n, return_element) ==
    IF n > Len(paras) THEN <<>>
    ELSE ParaOps(paras[n].style, paras[n].line, "inner", return_element)
            \o ListOps(paras, n + 1, return_element)

\* the branch taken for lines[start_idx]: its operations, the index it
\* returns, how it builds the returned list, and whether process_markdown_block
\* sees its exceptions (add_image_to_doc handles its own)
BlockBranch(ls, start_idx, return_element, image_ok) ==
    LET k == ls[start_idx].kind
    IN  CASE k = "heading" ->
               [ops |-> ParaOps("Heading", start_idx, "outer", return_element),
                next |-> start_idx + 1, ret |-> "outer", guarded |-> FALSE]
          [] k = "pagebreak" ->
               [ops |-> BareOps("PageBreak", start_idx, return_element),
                next |-> start_idx + 1, ret |-> "outer", guarded |-> FALSE]
          [] k = "hline" ->
               [ops |-> BareOps("HorizontalLine", start_idx, return_element),
                next |-> start_idx + 1, ret |-> "outer", guarded |-> FALSE]
          [] k = "image" ->
               IF image_ok
               THEN [ops |-> <<[op |-> "add", el |-> El("Picture", start_idx), to |-> "outer"],
                               [op |-> "add", el |-> El("Caption", start_idx), to |-> "outer"]>>,
                     next |-> start_idx + 1, ret |-> "outer", guarded |-> TRUE]
               ELSE [ops |-> <<[op |-> "add", el |-> El("ImageError", start_idx),
                                to |-> "outer"]>>,
                     next |-> start_idx + 1, ret |-> "outer", guarded |-> FALSE]
          [] k = "align_inline" ->
               [ops |-> ParaOps("Aligned", start_idx, "outer", return_element),
                next |-> start_idx + 1, ret |-> "outer", guarded |-> FALSE]
          [] k \in AlignOpenKinds ->
               LET a == AlignScan(ls, start_idx + 1, <<>>)
               IN  [ops |-> AlignOps(a.paras, 1, RegionAlignment(k), return_element),
                    next |-> a.next, ret |-> "extend", guarded |-> FALSE]
          [] k \in {"ol", "ul"} ->
               LET r == ListOuter(ls, start_idx, k = "ol", 0, <<>>)
               IN  [ops |-> ListOps(r.paras, 1, return_element),
                    next |-> r.next, ret |-> "inner", guarded |-> FALSE]
          [] OTHER ->
               [ops |-> ParaOps("Normal", start_idx, "outer", return_element),
                next |-> start_idx + 1, ret |-> "outer", guarded |-> FALSE]

\* the effect of one operation on the body and the two element lists
ApplyOp(o, s) ==
    CASE o.op = "add" -> [s EXCEPT !.doc = Append(@, o.el)]
      [] o.op = "fill" -> [s EXCEPT !.doc[Len(s.doc)].filled = TRUE]
      [] o.op = "collect" ->
           IF o.to = "outer"
           THEN [s EXCEPT !.outer = Append(@, s.doc[Len(s.doc)]),
                          !.doc = SubSeq(@, 1, Len(s.doc) - 1)]
           ELSE [s EXCEPT !.inner = Append(@, s.doc[Len(s.doc)]),
                          !.doc = SubSeq(@, 1, Len(s.doc) - 1)]

\* the operations ops[n..last] applied in order
RECURSIVE RunOps(_, _, _, _)
RunOps(ops, n, last, s) ==
    IF n > last THEN s ELSE RunOps(ops, n + 1, last, ApplyOp(ops[n], s))

\* except Exception: return start_idx + 1, elements
FailedBlock(ls, start_idx, return_element, s) ==
    [next |-> start_idx + 1, none |-> FALSE, failed |-> TRUE,
     elements |-> s.outer, doc |-> s.doc]

\* process_markdown_block(doc, lines, start_idx, return_element) on an empty
\* body; operation number fail raises (0: none does).  The result holds the
\* returned pair (next, elements; none when elements is None) and the body.
process_markdown_block(ls, start_idx, return_element, image_ok, fail) ==
    LET b == BlockBranch(ls, start_idx, return_element, image_ok)
        s0 == [doc |-> <<>>, outer |-> <<>>, inner |-> <<>>]
    IN  IF fail > 0
        THEN FailedBlock(ls, start_idx, return_element, RunOps(b.ops, 1, fail - 1, s0))
        ELSE LET s == RunOps(b.ops, 1, Len(b.ops), s0)
             IN  [next |-> b.next, failed |-> FALSE,
                  none |-> b.ret = "inner" /\ ~return_element,
                  elements |-> CASE b.ret = "outer" -> s.outer
                                 [] b.ret = "extend" ->
                                      IF return_element /\ s.inner # <<>>
                                      THEN s.outer \o s.inner ELSE s.outer
                                 [] OTHER -> s.inner,
                  doc |-> s.doc]

(***************************************************************************)
(* One process_markdown_block call (SpecBlock)                             *)
(***************************************************************************)
MaxBlockLines == 2

BlockLineKinds ==
    {ListLine(0, k) : k \in {"heading", "pagebreak", "hline", "image", "align_inline",
                             "align_open", "align_close", "div_open", "div_close",
                             "ol", "ul", "text", "blank"}}
    \cup {ListLine(3, "ul"), ListLine(3, "ol")}

BlockDocuments ==
    (SeqsUpTo(BlockLineKinds, MaxBlockLines) \ {<<>>})
    \cup {<<ListLine(0, "align_open"), ListLine(0, "text"), ListLine(0, "heading"),
            ListLine(0, "align_close")>>,
          <<ListLine(0, "ul"), ListLine(3, "ol"), ListLine(0, "ul")>>,
          <<ListLine(0, "div_open"), ListLine(0, "text"), ListLine(0, "blank"),
            ListLine(0, "text"), ListLine(0, "div_close"), ListLine(0, "text")>>,
          <<ListLine(0, "align_open"), ListLine(0, "text"), ListLine(0, "div_close"),
            ListLine(0, "text"), ListLine(0, "align_close")>>}

NoBlockResult == [next |-> 0, none |-> FALSE, failed |-> FALSE, elements |-> <<>>, doc |-> <<>>]

BlockInit ==
    /\ \E ls \in BlockDocuments, e \in BOOLEAN :
       \E n \in 1..Len(ls) :
          blk = [st |-> "call", lines |-> ls, start_idx |-> n, return_element |-> e,
                 ret |-> NoBlockResult]
    /\ XlsxIdle
    /\ FormulaIdle
    /\ InlineIdle
    /\ RestIdleExcept("blk")

\* a call in which nothing raises
ProcessMarkdownBlockCall ==
    /\ blk.st = "call"
    /\ \E image_ok \in BOOLEAN :
          blk' = [blk EXCEPT !.st = "returned",
                             !.ret = process_markdown_block(blk.lines, blk.start_idx,
                                                            blk.return_element, image_ok, 0)]
    /\ UNCHANGED <<xlsxVars, formulaVars, inlineVars, tbl, lst, auth, upl, conc>>

\* a call in which one operation of the branch raises
ProcessMarkdownBlockRaises ==
    /\ blk.st = "call"
    /\ \E image_ok \in BOOLEAN :
          LET b == BlockBranch(blk.lines, blk.start_idx, blk.return_element, image_ok)
          IN  /\ ~b.guarded
              /\ \E fail \in 1..Len(b.ops) :
                    blk' = [blk EXCEPT !.st = "returned",
                                       !.ret = process_markdown_block(blk.lines, blk.start_idx,
                                                  blk.return_element, image_ok, fail)]
    /\ UNCHANGED <<xlsxVars, formulaVars, inlineVars, tbl, lst, auth, upl, conc>>

BlockNext ==
    \/ ProcessMarkdownBlockCall
    \/ ProcessMarkdownBlockRaises

SpecBlock == BlockInit /\ [][BlockNext]_vars

\* C19: when an operation of the block raises, process_markdown_block
\* catches it, returns start_idx + 1, and the block comes out as one
\* plain paragraph holding its text (in the returned elements with
\* return_element, in the body without) and nothing else.
C19_FailedBlockBecomesParagraph ==
    (blk.st = "returned" /\ blk.ret.failed) =>
        LET p == [El("Normal", blk.start_idx) EXCEPT !.filled = TRUE]
        IN  /\ blk.ret.next = blk.start_idx + 1
            /\ blk.ret.elements = (IF blk.return_element THEN <<p>> ELSE <<>>)
            /\ blk.ret.doc = (IF blk.return_element THEN <<>> ELSE <<p>>)

\* the part of C19 the code keeps: the exception is caught and the caller
\* is handed start_idx + 1
C19_FailedBlockReturnsNextIndex ==
    (blk.st = "returned" /\ blk.ret.failed) => blk.ret.next = blk.start_idx + 1

(***************************************************************************)
(* Failures in the second pass of markdown_to_excel (SpecXlsx)             *)
(***************************************************************************)
\* C20: nothing before the output is fatal in markdown_to_excel: an
\* exception while a heading or a table is placed in the second pass does
\* not end the conversion, so the conversion fails only in the step that
\* saves and uploads the finished workbook.
C20_OnlySaveFailureIsFatal == [][pc' = "failed" => pc = "save"]_vars

(***************************************************************************)
(* Depth of recursion (SpecNesting).  process_list_items calls itself for  *)
(* every nested list and _parse_formatting_segment for every bold, italic  *)
(* and bold-italic span; neither takes or tests a depth.  The interpreter  *)
(* ends a call chain longer than its recursion limit with RecursionError.  *)
(***************************************************************************)
\* the frames the interpreter allows these calls, scaled to the inputs
StackLimit == 2

Larger(a, b) == IF a >= b THEN a ELSE b

\* the loops of one process_list_items call as in ListOuter and ListAhead,
\* carrying the longest chain of nested calls below this one
RECURSIVE DepthOuter(_, _, _, _, _)
RECURSIVE DepthAhead(_, _, _, _, _)
DepthOuter(ls, i, is_ordered, level, d) ==
    IF i > Len(ls) THEN [next |-> i, depth |-> d]
    ELSE IF current_level(ls[i]) # level THEN [next |-> i, depth |-> d]
    ELSE IF ~ListMatch(ls[i], is_ordered) THEN [next |-> i, depth |-> d]
    ELSE DepthAhead(ls, i + 1, is_ordered, level, d)

DepthAhead(ls, i, is_ordered, level, d) ==
    IF i > Len(ls) THEN DepthOuter(ls, i, is_ordered, level, d)
    ELSE IF ls[i].kind = "blank" THEN DepthAhead(ls, i + 1, is_ordered, level, d)
    ELSE IF current_level(ls[i]) > level /\ ls[i].kind \in {"ol", "ul"}
    THEN LET nested == DepthOuter(ls, i, ls[i].kind = "ol", current_level(ls[i]), 0)
         IN  DepthAhead(ls, nested.next, is_ordered, level, Larger(d, 1 + nested.depth))
    ELSE DepthOuter(ls, i, is_ordered, level, d)

\* frames of process_list_items on the stack at the deepest point of a call
ListDepth(ls, start_idx, is_ordered) ==
    1 + DepthOuter(ls, start_idx, is_ordered, 0, 0).depth

\* frames of _parse_formatting_segment at the deepest point of a call: the
\* branches for ***x***, **x** and *x* call it again on x
RECURSIVE InlineDepth(_)
PartDepth(part) ==
    IF part = <<>> THEN 0
    ELSE IF /\ StartsWith(part, <<"*", "*", "*">>)
            /\ EndsWith(part, <<"*", "*", "*">>)
            /\ Len(part) > 6
    THEN InlineDepth(Strip(part, 3, 3))
    ELSE IF StartsWith(part, <<"*", "*">>) /\ EndsWith(part, <<"*", "*">>)
    THEN InlineDepth(Strip(part, 2, 2))
    ELSE IF StartsWith(part, <<"~", "~">>) /\ EndsWith(part, <<"~", "~">>)
    THEN 0
    ELSE IF /\ StartsWith(part, <<"_", "_">>)
            /\ EndsWith(part, <<"_", "_">>)
            /\ ~StartsWith(part, <<"_", "_", "_">>)
    THEN 0
    ELSE IF /\ StartsWith(part, <<"*">>)
            /\ EndsWith(part, <<"*">>)
            /\ ~StartsWith(part, <<"*", "*">>)
    THEN InlineDepth(Strip(part, 1, 1))
    ELSE 0

RECURSIVE PartsDepth(_)
PartsDepth(parts) ==
    IF parts = <<>> THEN 0
    ELSE Larger(PartDepth(Head(parts)), PartsDepth(Tail(parts)))

InlineDepth(t) == 1 + PartsDepth(InlineSplit(t))

\* how a call chain of the given depth ends
CallOutcome(depth) == IF depth > StackLimit THEN "RecursionError" ELSE "returned"

MaxNestLines == 3
MaxNestAtoms == 5

NestLineKinds ==
    {ListLine(n, "ul") : n \in {0, 3, 6, 9}} \cup {ListLine(n, "ol") : n \in {0, 3, 6}}
    \cup {ListLine(0, "text"), ListLine(0, "blank")}

NestTexts ==
    {Flatten(ss) : ss \in SeqsUpTo({<<"a">>, <<"*">>, <<"*", "*">>, <<"~", "~">>}, MaxNestAtoms)}

NestingInit ==
    /\ \/ \E ls \in SeqsUpTo(NestLineKinds, MaxNestLines) \ {<<>>} :
             /\ ls[1].kind \in {"ol", "ul"}
             /\ lst = [st |-> "call", fn |-> "process_list_items", lines |-> ls,
                       text |-> <<>>, depth |-> 0, outcome |-> "none"]
       \/ \E t \in NestTexts :
             lst = [st |-> "call", fn |-> "_parse_formatting_segment", lines |-> <<>>,
                    text |-> t, depth |-> 0, outcome |-> "none"]
    /\ XlsxIdle
    /\ FormulaIdle
    /\ InlineIdle
    /\ RestIdleExcept("lst")

\* process_list_items(lines, 0, doc, is_ordered, level=0) runs to its end
NestedListCall ==
    /\ lst.st = "call"
    /\ lst.fn = "process_list_items"
    /\ LET d == ListDepth(lst.lines, 1, lst.lines[1].kind = "ol")
       IN  lst' = [lst EXCEPT !.st = "ended", !.depth = d, !.outcome = CallOutcome(d)]
    /\ UNCHANGED <<xlsxVars, formulaVars, inlineVars, tbl, auth, upl, conc, blk>>

\* _parse_formatting_segment(text, paragraph) runs to its end
NestedInlineCall ==
    /\ lst.st = "call"
    /\ lst.fn = "_parse_formatting_segment"
    /\ LET d == InlineDepth(lst.text)
       IN  lst' = [lst EXCEPT !.st = "ended", !.depth = d, !.outcome = CallOutcome(d)]
    /\ UNCHANGED <<xlsxVars, formulaVars, inlineVars, tbl, auth, upl, conc, blk>>

NestingNext ==
    \/ NestedListCall
    \/ NestedInlineCall

SpecNesting == NestingInit /\ [][NestingNext]_vars

\* C21: the recursion of _parse_formatting_segment and of
\* process_list_items is cut by a depth limit of their own: input nested
\* deeper than the limit ends in a reported error of the function, never
\* in the interpreter's RecursionError.
C21_DepthLimitFailsClosed ==
    lst.st = "ended" => lst.outcome \in {"returned", "nesting too deep"}

(***************************************************************************)
(* Spans of the inline parser (SpecInline)                                 *)
(***************************************************************************)
\* t is d inner d with d a two-character delimiter and inner free of the
\* delimiter's character, backslashes, newlines and private-use characters
WholeSpan(t, c) ==
    /\ Len(t) >= 5
    /\ StartsWith(t, <<c, c>>)
    /\ EndsWith(t, <<c, c>>)
    /\ \A n \in 3..(Len(t) - 2) : t[n] \notin {c, "\\", "\n", Placeholder(0)}

\* the runs of inner, each with one more format set
WithStrike(rs) == [n \in DOMAIN rs |-> [rs[n] EXCEPT !.strike = TRUE]]
WithUnderline(rs) == [n \in DOMAIN rs |-> [rs[n] EXCEPT !.underline = TRUE]]

\* C22: a strikethrough or underline span is stripped of its delimiters
\* and its content is parsed again, as for bold and italic: the runs of
\* ~~x~~ are the runs of x with strike set, the runs of __x__ those of x
\* with underline set, so ~~**a**~~ is one bold strike run "a".
C22_StrikeUnderlineReentered ==
    (ipc = "done" /\ ictx = NoFormat) =>
        /\ WholeSpan(text, "~") =>
              runs = WithStrike(parse_inline_formatting(Strip(text, 2, 2), FALSE, FALSE).runs)
        /\ WholeSpan(text, "_") =>
              runs = WithUnderline(parse_inline_formatting(Strip(text, 2, 2), FALSE, FALSE).runs)

\* t is ** s ** (n = 2) or * s * (n = 1) with s a whole span of c free of *
Wrapped(t, n, c) ==
    /\ Len(t) >= 2 * n + 5
    /\ \A k \in 1..n : t[k] = "*" /\ t[Len(t) + 1 - k] = "*"
    /\ WholeSpan(Strip(t, n, n), c)
    /\ \A k \in (n + 1)..(Len(t) - n) : t[k] # "*"

\* C23: no run is a code run and also a link, strikethrough or underline
\* run; bold and italic combine with strikethrough and underline by
\* nesting: **~~x~~** is one bold strike run x, *__x__* one italic
\* underline run x.
C23_CodeExclusive ==
    ipc = "done" =>
        /\ \A n \in DOMAIN runs :
              runs[n].code => ~(runs[n].link \/ runs[n].strike \/ runs[n].underline)
        /\ (ictx = NoFormat /\ Wrapped(text, 2, "~")) =>
              runs = <<[TextRun(Strip(text, 4, 4), TRUE, FALSE) EXCEPT !.strike = TRUE]>>
        /\ (ictx = NoFormat /\ Wrapped(text, 1, "_")) =>
              runs = <<[TextRun(Strip(text, 3, 3), FALSE, TRUE) EXCEPT !.underline = TRUE]>>

\* *__x__* parsed: one italic underline run
C23_Witness ==
    /\ ipc = "done"
    /\ text = ItalicUnderlineExample
    /\ Len(runs) = 1
    /\ runs[1].italic /\ runs[1].underline /\ ~runs[1].code
    /\ runs[1].text = <<"x">>

(***************************************************************************)
(* Separator lines of a table (SpecTable)                                  *)
(***************************************************************************)
\* a cell that is an alignment separator: hyphens, with or without a
\* colon at either end
SeparatorCell(c) ==
    LET a == IF c # <<>> /\ Head(c) = ":" THEN Tail(c) ELSE c
        b == IF a # <<>> /\ a[Len(a)] = ":" THEN SubSeq(a, 1, Len(a) - 1) ELSE a
    IN  b # <<>> /\ \A n \in DOMAIN b : b[n] = "-"

\* a line all of whose cells are alignment separators
AlignmentSeparator(line) ==
    line.cells # <<>> /\ \A c \in DOMAIN line.cells : SeparatorCell(line.cells[c].s)

\* C24: the grid holds one row for every pipe-bounded line of the block
\* that is not an alignment separator, in source order, and no row for a
\* separator: a data row whose text merely contains hyphens is kept.
C24_OnlySeparatorsDropped ==
    (tbl.st = "returned" /\ ~tbl.ret.none) =>
        LET n == PipeRun(tbl.lines, tbl.start_idx)
            block == SubSeq(tbl.lines, tbl.start_idx, tbl.start_idx + n - 1)
            rows == SelectSeq(block, LAMBDA l : ~AlignmentSeparator(l))
        IN  tbl.ret.data = [r \in DOMAIN rows |-> rows[r].cells]

(***************************************************************************)
(* Alignment regions (SpecBlock)                                           *)
(***************************************************************************)
\* the close tag that matches an open tag
MatchingClose(kind) == IF kind = "div_open" THEN "div_close" ELSE "align_close"

\* the paragraphs a call created, wherever it left them
CreatedBy(b) == IF b.return_element THEN b.ret.elements ELSE b.ret.doc

\* C25: a region opened by a bare <center> or <div align="X"> line ends at
\* its matching close tag: one paragraph with the region's alignment for
\* every non-blank line before that close tag, none for a blank line, and
\* the index after the close tag is returned.
C25_RegionEndsAtMatchingClose ==
    (/\ blk.st = "returned"
     /\ ~blk.ret.failed
     /\ blk.lines[blk.start_idx].kind \in AlignOpenKinds) =>
        LET open == blk.lines[blk.start_idx].kind
            closes == {n \in (blk.start_idx + 1)..Len(blk.lines) :
                          blk.lines[n].kind = MatchingClose(open)}
        IN  closes # {} =>
               LET c == CHOOSE n \in closes : \A m \in closes : n <= m
                   inside == SelectSeq([n \in 1..(c - blk.start_idx - 1) |-> blk.start_idx + n],
                                       LAMBDA n : blk.lines[n].kind # "blank")
               IN  /\ blk.ret.next = c + 1
                   /\ CreatedBy(blk) =
                         [n \in DOMAIN inside |->
                             [El(RegionAlignment(open), inside[n]) EXCEPT !.filled = TRUE]]

(***************************************************************************)
(* Successive top-level parses in one process (SpecFresh): every           *)
(* parse_inline_formatting call starts from the module globals the calls   *)
(* before it left behind.                                                  *)
(***************************************************************************)
MaxFreshLen == 2
MaxFreshCalls == 2

FreshChars == {"a", "*", "\\", Placeholder(0)}
FreshTexts == SeqsUpTo(FreshChars, MaxFreshLen)

\* a start of the call that leaves the map as it is
escape_map_kept(map) == map

\* _escape_map.clear()
escape_map_cleared(map) == <<>>

FreshInit ==
    /\ text \in FreshTexts
    /\ protected = <<>>
    /\ ictx \in [bold : BOOLEAN, italic : {FALSE}]
    /\ escape_map = <<>>
    /\ escape_counter = 0
    /\ runs = <<>>
    /\ ipc = "call"
    /\ esc = [calls |-> 1, direct |-> FALSE, left |-> <<>>]
    /\ XlsxIdle
    /\ FormulaIdle
    /\ RestIdle

\* other code of the process calls handle_escapes(t) on its own
DirectHandleEscapes ==
    /\ ipc = "call"
    /\ ~esc.direct
    /\ \E t \in FreshTexts :
          LET h == handle_escapes(t, escape_map, escape_counter)
          IN  /\ escape_map' = h.map
              /\ escape_counter' = h.counter
    /\ esc' = [esc EXCEPT !.direct = TRUE]
    /\ UNCHANGED <<xlsxVars, formulaVars, restVars, text, protected, ictx, runs, ipc>>

\* _escape_map.clear(); _escape_counter = 0; text = handle_escapes(text)
FreshProtect ==
    /\ ipc = "call"
    /\ LET h == handle_escapes(text, escape_map_cleared(escape_map), 0)
       IN  /\ protected' = h.text
           /\ escape_map' = h.map
           /\ escape_counter' = h.counter
    /\ esc' = [esc EXCEPT !.left = escape_map]
    /\ ipc' = "split"
    /\ UNCHANGED <<xlsxVars, formulaVars, restVars, text, ictx, runs>>

\* the loop over text.split('  \n')
FreshParse ==
    /\ ipc = "split"
    /\ runs' = LinePartsRuns(SplitBreaksFrom(protected, 1, 1), 1,
                             ictx.bold, ictx.italic, escape_map)
    /\ ipc' = "done"
    /\ UNCHANGED <<xlsxVars, formulaVars, restVars, text, protected, ictx, escape_map,
                   escape_counter, esc>>

\* the next parse_inline_formatting call of the process
NextParse ==
    /\ ipc = "done"
    /\ esc.calls < MaxFreshCalls
    /\ text' \in FreshTexts
    /\ runs' = <<>>
    /\ protected' = <<>>
    /\ ipc' = "call"
    /\ esc' = [esc EXCEPT !.calls = @ + 1, !.direct = FALSE]
    /\ UNCHANGED <<xlsxVars, formulaVars, restVars, ictx, escape_map, escape_counter>>

FreshNext ==
    \/ DirectHandleEscapes
    \/ FreshProtect
    \/ FreshParse
    \/ NextParse

SpecFresh == FreshInit /\ [][FreshNext]_vars

\* C26: the runs of parse_inline_formatting(t) are a function of t and
\* the inherited flags: whatever parse_inline_formatting and
\* handle_escapes calls came before in the process, they are the runs of
\* the same call in a process that made none.
C26_FreshEscapeContext ==
    ipc = "done" =>
        runs = parse_inline_formatting(text, ictx.bold, ictx.italic).runs

\* a second parse, of a text holding a private-use character, that found
\* an entry for that character left in the map
C26_Witness ==
    /\ ipc = "done"
    /\ esc.calls = 2
    /\ DictHas(esc.left, Placeholder(0))
    /\ \E n \in DOMAIN text : text[n] = Placeholder(0)
    /\ \A n \in DOMAIN text : text[n] # "\\"
    /\ \E n \in DOMAIN runs : \E m \in DOMAIN runs[n].text : runs[n].text[m] = Placeholder(0)

(***************************************************************************)
(* Progress of block processing (SpecBlock)                                *)
(***************************************************************************)
\* C27: process_markdown_block called on a non-blank line returns a next
\* index greater than start_idx (also for a list line indented by three
\* or more spaces), so a driver that continues from the returned index
\* reaches the end of every document.
C27_BlockMakesProgress ==
    (blk.st = "returned" /\ blk.lines[blk.start_idx].kind # "blank") =>
        blk.ret.next > blk.start_idx

(***************************************************************************)
(* Private-use characters in the input (SpecInline)                        *)
(***************************************************************************)
\* the text is made of letters, private-use characters and escapes only
RECURSIVE LiteralOnlyFrom(_, _)
LiteralOnlyFrom(t, i) ==
    \/ i > Len(t)
    \/ /\ t[i] = "\\"
       /\ i < Len(t)
       /\ t[i + 1] \in Delimiters \cup Letters \cup {Placeholder(0)}
       /\ LiteralOnlyFrom(t, i + 2)
    \/ /\ t[i] \in Letters \cup {Placeholder(0)}
       /\ LiteralOnlyFrom(t, i + 1)

\* the texts of the runs one after the other
RECURSIVE RunsText(_)
RunsText(rs) == IF rs = <<>> THEN <<>> ELSE Head(rs).text \o RunsText(Tail(rs))

\* C28: restoration undoes protection and nothing else: for a text of
\* letters, private-use characters and escapes, the text of the runs is
\* the input with every \X turned into X; a private-use character of the
\* input, escaped or not, comes out as itself.
C28_RestoreOnlyUndoesProtect ==
    (ipc = "done" /\ LiteralOnlyFrom(text, 1)) =>
        RunsText(runs) = UnescapeFrom(text, 1)

(***************************************************************************)
(* add_table_to_doc (SpecDocTable).  The grid is given by the number of    *)
(* cells of each row; the document by the tables added to it, each with    *)
(* its size, its style and the cells that were filled.                     *)
(***************************************************************************)
MaxGridRows == 2
MaxGridCols == 2

Grids == SeqsUpTo(0..MaxGridCols, MaxGridRows)

\* max(len(row) for row in table_data)
GridCols(grid) == CHOOSE c \in 0..MaxGridCols :
                      /\ \A r \in DOMAIN grid : grid[r] <= c
                      /\ \E r \in DOMAIN grid : grid[r] = c

\* doc.add_table(rows=rows, cols=cols)
NewTable(grid) == [rows |-> Len(grid), cols |-> GridCols(grid), style |-> "default",
                   filled |-> {}]

\* the cells of the grid in the order of the two loops
GridCells(grid) ==
    LET RECURSIVE RowsFrom(_)
        RowsFrom(r) == IF r > Len(grid) THEN <<>>
                       ELSE [c \in 1..grid[r] |-> <<r, c>>] \o RowsFrom(r + 1)
    IN  RowsFrom(1)

DocTableInit ==
    /\ \E grid \in Grids :
          tbl = [st |-> "call", table_data |-> grid, doc |-> <<>>, word_table |-> 0,
                 cell |-> 1, cell_failures |-> 0]
    /\ XlsxIdle
    /\ FormulaIdle
    /\ InlineIdle
    /\ RestIdleExcept("tbl")

\* if not table_data: return
EmptyGridReturns ==
    /\ tbl.st = "call"
    /\ tbl.table_data = <<>>
    /\ tbl' = [tbl EXCEPT !.st = "returned"]
    /\ UNCHANGED <<xlsxVars, formulaVars, inlineVars, lst, auth, upl, conc, blk>>

\* word_table = doc.add_table(rows=rows, cols=cols) in the try block
AddTable ==
    /\ tbl.st = "call"
    /\ tbl.table_data # <<>>
    /\ tbl' = [tbl EXCEPT !.st = "style", !.doc = Append(@, NewTable(tbl.table_data)),
                          !.word_table = Len(tbl.doc) + 1]
    /\ UNCHANGED <<xlsxVars, formulaVars, inlineVars, lst, auth, upl, conc, blk>>

\* doc.add_table raises in the try block
AddTableRaises ==
    /\ tbl.st = "call"
    /\ tbl.table_data # <<>>
    /\ tbl' = [tbl EXCEPT !.st = "fallback"]
    /\ UNCHANGED <<xlsxVars, formulaVars, inlineVars, lst, auth, upl, conc, blk>>

\* word_table.style = 'Table Grid'
ApplyTableStyle ==
    /\ tbl.st = "style"
    /\ tbl' = [tbl EXCEPT !.st = "fill", !.doc[tbl.word_table].style = "Table Grid"]
    /\ UNCHANGED <<xlsxVars, formulaVars, inlineVars, lst, auth, upl, conc, blk>>

\* the style assignment raises (the template has no such style)
ApplyTableStyleRaises ==
    /\ tbl.st = "style"
    /\ tbl' = [tbl EXCEPT !.st = "fallback"]
    /\ UNCHANGED <<xlsxVars, formulaVars, inlineVars, lst, auth, upl, conc, blk>>

\* except: word_table = doc.add_table(rows=rows, cols=cols)
FallbackAddTable ==
    /\ tbl.st = "fallback"
    /\ tbl' = [tbl EXCEPT !.st = "fill", !.doc = Append(@, NewTable(tbl.table_data)),
                          !.word_table = Len(tbl.doc) + 1]
    /\ UNCHANGED <<xlsxVars, formulaVars, inlineVars, lst, auth, upl, conc, blk>>

\* the second add_table raises as well: logged, return
FallbackAddTableRaises ==
    /\ tbl.st = "fallback"
    /\ tbl' = [tbl EXCEPT !.st = "returned"]
    /\ UNCHANGED <<xlsxVars, formulaVars, inlineVars, lst, auth, upl, conc, blk>>

\* one cell of the loops is cleared and filled
FillCell ==
    /\ tbl.st = "fill"
    /\ tbl.cell <= Len(GridCells(tbl.table_data))
    /\ tbl' = [tbl EXCEPT !.cell = @ + 1,
                          !.doc[tbl.word_table].filled =
                              @ \cup {GridCells(tbl.table_data)[tbl.cell]}]
    /\ UNCHANGED <<xlsxVars, formulaVars, inlineVars, lst, auth, upl, conc, blk>>

\* filling one cell raises: logged, the loops go on
FillCellRaises ==
    /\ tbl.st = "fill"
    /\ tbl.cell <= Len(GridCells(tbl.table_data))
    /\ tbl' = [tbl EXCEPT !.cell = @ + 1, !.cell_failures = @ + 1]
    /\ UNCHANGED <<xlsxVars, formulaVars, inlineVars, lst, auth, upl, conc, blk>>

\* the loops are over
FillDone ==
    /\ tbl.st = "fill"
    /\ tbl.cell > Len(GridCells(tbl.table_data))
    /\ tbl' = [tbl EXCEPT !.st = "returned"]
    /\ UNCHANGED <<xlsxVars, formulaVars, inlineVars, lst, auth, upl, conc, blk>>

DocTableNext ==
    \/ EmptyGridReturns
    \/ AddTable
    \/ AddTableRaises
    \/ ApplyTableStyle
    \/ ApplyTableStyleRaises
    \/ FallbackAddTable
    \/ FallbackAddTableRaises
    \/ FillCell
    \/ FillCellRaises
    \/ FillDone

SpecDocTable == DocTableInit /\ [][DocTableNext]_vars

\* C29: one call adds at most one table to the document, also when the
\* 'Table Grid' style cannot be applied and the fallback is taken; the
\* table that is filled has len(grid) rows and max-row-length columns, and
\* a cell that fails leaves the others filled.
C29_AtMostOneTable ==
    /\ Len(tbl.doc) <= 1
    /\ (tbl.st = "returned" /\ tbl.doc # <<>>) =>
          /\ tbl.doc[1].rows = Len(tbl.table_data)
          /\ tbl.doc[1].cols = GridCols(tbl.table_data)
          /\ Cardinality(tbl.doc[1].filled) + tbl.cell_failures
                = Len(GridCells(tbl.table_data))

(***************************************************************************)
(* The ids and rows of the scan map (SpecXlsx)                             *)
(***************************************************************************)
\* C30: in the map _scan_table_positions returns, the table ids of every
\* sheet are T1..Tk without a gap and the start rows grow with the id,
\* start(T(j+1)) >= start(Tj) + 3, also when a sheet name is carried by
\* more than one marker.
C30_ScanIdsDenseRowsIncreasing ==
    pc # "scan" =>
        \A n \in DOMAIN all_sheet_table_positions :
            LET tables == all_sheet_table_positions[n].val
                k == Len(tables)
            IN  /\ \A j \in 1..k : DictHas(tables, TableKey(j))
                /\ \A j \in 1..(k - 1) :
                      DictGet(tables, TableKey(j + 1)) >= DictGet(tables, TableKey(j)) + 3

====
